---- MODULE Spec2Model ----
(***************************************************************************)
(* Sync orchestration of obsidian-notes-sync: the SyncManager, the two     *)
(* sync services (LuojiLab, Flomo), the vault, the remote note stores and  *)
(* the persisted plugin data.  Every async method is a coroutine: one      *)
(* action runs the code from one suspension point (an await on I/O) to the *)
(* next, UI events and timers interleave between them.                     *)
(***************************************************************************)
EXTENDS Integers, Sequences, FiniteSets, TLC

\* ------------------------------------------------------------------ bounds
MaxPasses == 2        \* passes started in one behaviour
MaxInst == 2          \* service instances constructed in one behaviour
MaxBatch == 2         \* notes in one page answered by the server
MaxServerPages == 2   \* pages the server is willing to answer with has_more
MaxFaults == 1        \* failed I/O operations (requests, reads, writes) in one behaviour
MaxNotes == 2         \* notes the server answers to one pass, over all its pages
MaxAttempts == 4      \* the largest retryAttempts the user enters

\* ------------------------------------------------------- program constants
maxPages == 500
pageSize == 20
DefaultFetchLimit == 50
FlomoFetchLimit == 200
DefaultRetryAttempts == 3   \* DEFAULT_SETTINGS.retryAttempts

\* ------------------------------------------------------------------ values
\* notes the LuojiLab server may answer: id, title, content
RemoteNotes ==
  { [id |-> "a", title |-> "t", content |-> "x"],
    [id |-> "b", title |-> "t", content |-> "x"] }
\* memos the Flomo server may answer
RemoteMemos ==
  { [memo_id |-> "a", slug |-> "sa", content |-> "x", updated_at |-> 1],
    [memo_id |-> "b", slug |-> "sb", content |-> "x", updated_at |-> 1] }

SeqsUpTo(S, n) == UNION { [1..k -> S] : k \in 0..n }

VARIABLES
  settings,   \* NotesSyncPlugin.settings, the in-memory settings object
  services,   \* every service instance constructed so far; the SyncManager
              \* holds the last one
  passes,     \* the invocations of syncFromServer / syncToServer that passed
              \* the guards, each a coroutine with its locals
  data,       \* the blob of the host's key-value storage (loadData/saveData)
  vault,      \* the markdown files of the vault, in getMarkdownFiles order
  remote,     \* number of notes stored by each remote service
  now,        \* Date.now()
  notice,     \* the last Notice the last handler run showed, "" if none
  sent,       \* the requests the last step sent to the Flomo server
  timers,     \* whether the interval of NotesSyncPlugin.startAutoSync and
              \* that of SyncManager.scheduleAutoSync are set
  faults      \* number of I/O operations that have failed so far

vars == <<settings, services, passes, data, vault, remote, now, notice, sent,
          timers, faults>>

\* ---------------------------------------------------------- front matter
NoFm == [remote_id |-> "", memo_id |-> "", slug |-> "", title |-> "",
         updated_at |-> 0, last_synced |-> 0, sync_status |-> ""]

\* LuojiLabSyncService.serializeToMarkdown: `key: value` per key, the value
\* printed as it is; the front matter is kept as the text of each value
serializeToMarkdown(frontMatter, content) ==
  [hasFm |-> TRUE, fm |-> frontMatter, body |-> content]

\* the plain scalars of the model that YAML's core schema resolves to a
\* number and to a boolean rather than to a string
YamlInts == {"0", "1", "123"}
YamlBools == {"true", "false"}

\* yaml.load of one plain scalar: an empty value loads as null, which the
\* callers read as absent; digits load as a number and true / false as a
\* boolean, written here with their YAML tag to keep them apart from the
\* string of the same letters
YamlScalar(text) ==
  IF text \in YamlInts THEN "!!int " \o text
  ELSE IF text \in YamlBools THEN "!!bool " \o text
  ELSE text

\* LuojiLabSyncService.parseFrontMatter: null when there is no block
parseFrontMatter(file) ==
  IF file.hasFm
  THEN [NoFm EXCEPT !.remote_id = YamlScalar(file.fm.remote_id),
                    !.memo_id = YamlScalar(file.fm.memo_id),
                    !.slug = YamlScalar(file.fm.slug),
                    !.title = YamlScalar(file.fm.title),
                    !.updated_at = file.fm.updated_at,
                    !.last_synced = file.fm.last_synced,
                    !.sync_status = YamlScalar(file.fm.sync_status)]
  ELSE NoFm

\* LuojiLabSyncService.extractNoteContent
extractNoteContent(file) == file.body

\* LuojiLabSyncService.formatNoteContent
formatNoteContent(remoteMemo) ==
  serializeToMarkdown([NoFm EXCEPT !.remote_id = remoteMemo.id,
                                   !.title = remoteMemo.title,
                                   !.last_synced = now,
                                   !.sync_status = "synced"],
                      remoteMemo.content)

\* LuojiLabSyncService.formatConflictContent
formatConflictContent(remoteMemo) ==
  serializeToMarkdown([NoFm EXCEPT !.remote_id = remoteMemo.id,
                                   !.title = remoteMemo.title,
                                   !.last_synced = now,
                                   !.sync_status = "conflict"],
                      "Conflict detected. " \o remoteMemo.content)

\* LuojiLabSyncService.getFileName; the titles of the model need no
\* sanitizing, the id prefix is the id itself (ids are shorter than 6)
sanitizedName(remoteMemo, addIdPrefix) ==
  LET fileName == IF remoteMemo.title = "" \/ remoteMemo.title = "Untitled"
                  THEN remoteMemo.id ELSE remoteMemo.title
  IN  IF addIdPrefix THEN fileName \o "-" \o remoteMemo.id ELSE fileName

getFileName(remoteMemo, addIdPrefix) == sanitizedName(remoteMemo, addIdPrefix) \o ".md"

\* the name of the last resort (lines 640-646): the name with the id prefix,
\* Date.now() put before the extension
timestampedName(remoteMemo) ==
  sanitizedName(remoteMemo, TRUE) \o "-" \o ToString(now) \o ".md"

\* ------------------------------------------------------------------ vault
MkFile(dir, name, c) ==
  [dir |-> dir, name |-> name, hasFm |-> c.hasFm, fm |-> c.fm, body |-> c.body,
   mtime |-> now]

\* index of the file at dir/name, 0 when there is none
\* (vault.getAbstractFileByPath)
getAbstractFileByPath(v, dir, name) ==
  IF \E j \in 1..Len(v) : v[j].dir = dir /\ v[j].name = name
  THEN CHOOSE j \in 1..Len(v) : v[j].dir = dir /\ v[j].name = name
  ELSE 0

\* vault.modify
Modify(v, j, c) == [v EXCEPT ![j] = MkFile(v[j].dir, v[j].name, c)]

\* indices of the markdown files under a folder, in vault order
FilesIn(v, dir) == { j \in 1..Len(v) : v[j].dir = dir }

RECURSIVE SortedIdx(_)
SortedIdx(S) ==
  IF S = {} THEN <<>>
  ELSE LET m == CHOOSE x \in S : \A y \in S : x <= y
       IN  <<m>> \o SortedIdx(S \ {m})

\* ------------------------------------------------------------ the world
\* The sequential code of a handler is a function from the program state to
\* the program state; World is the state it reads, the actions write it back.
World == [settings |-> settings, services |-> services, data |-> data,
          vault |-> vault, remote |-> remote, notice |-> "", sent |-> <<>>,
          timers |-> timers]

\* new Notice(text)
Notice(w, text) == [w EXCEPT !.notice = text]

\* fetchWithTimeout(url, options) of FlomoSyncService: the request leaves
Send(w, request) == [w EXCEPT !.sent = Append(@, request)]

\* this.syncStatus.errors.push({file, error, timestamp: Date.now()})
PushError(w, s, file, error) ==
  [w EXCEPT !.services[s].syncStatus.errors =
      Append(@, [file |-> file, error |-> error, timestamp |-> now])]

SetProgress(w, s, total, completed, currentFile) ==
  [w EXCEPT !.services[s].syncStatus.progress =
      [total |-> total, completed |-> completed, currentFile |-> currentFile]]

\* the finally block of syncFromServer / syncToServer
Finally(w, s) ==
  [w EXCEPT !.services[s].isSyncing = FALSE,
            !.services[s].syncStatus.inProgress = FALSE]

\* NotesSyncPlugin.saveSettings: saveData(this.settings), then startAutoSync
\* when settings.autoSync and stopAutoSync otherwise; ok is whether the
\* host's write succeeded (a rejected saveData leaves the timer as it is)
saveSettings(w, ok) ==
  IF ok THEN [w EXCEPT !.data = w.settings, !.timers.plugin = w.settings.autoSync]
  ELSE w

\* the timers after onload: the constructor of SyncManager has run
\* scheduleAutoSync and onload has run startAutoSync if settings.autoSync
\* (autoSyncInterval is the default, 30 minutes)
LoadedTimers(st) == [plugin |-> st.autoSync, manager |-> st.autoSync]

\* constructor of LuojiLabSyncService / FlomoSyncService
NewService(kind, st) ==
  [kind |-> kind, isSyncing |-> FALSE, cancelRequested |-> FALSE,
   syncStatus |-> [inProgress |-> FALSE,
                   lastSync |-> st.lastSyncTime,
                   lastSyncId |-> IF kind = "luojilab" THEN st.lastSyncId ELSE "",
                   pendingChanges |-> 0,
                   errors |-> <<>>,
                   progress |-> [total |-> 0, completed |-> 0, currentFile |-> ""]]]

\* the locals of one invocation that passed the guards
NewPass(s, dir, kind, isAutoSync, isFullSync, pre) ==
  [svc |-> s, dir |-> dir, kind |-> kind,
   isAutoSync |-> isAutoSync, isFullSync |-> isFullSync,
   pc |-> "folder", exit |-> "",
   mode |-> "", reqs |-> <<>>, page |-> 1, hasMore |-> TRUE, lastId |-> "",
   retryCount |-> 0, waits |-> <<>>,
   cachedData |-> [idToPathCache |-> <<>>], filePath |-> "",
   notes |-> <<>>, files |-> <<>>, total |-> 0, i |-> 0,
   processedNoteIds |-> {}, handled |-> <<>>,
   successCount |-> 0, errorCount |-> 0, skipCount |-> 0,
   cancelled |-> FALSE,
   pre |-> pre]

Running(p) == p.pc # "done"

\* the invocation has returned: its locals are gone, what it reported stays
Done(p, exit) ==
  [p EXCEPT !.pc = "done", !.exit = exit,
            !.mode = "", !.reqs = <<>>, !.page = 1, !.hasMore = TRUE, !.lastId = "",
            !.retryCount = 0, !.waits = <<>>, !.notes = <<>>, !.files = <<>>,
            !.cachedData = [idToPathCache |-> <<>>], !.filePath = "",
            !.processedNoteIds = {}, !.handled = <<>>]

\* one request to GET /notes
Req(limit, since_id, updated_after) ==
  [limit |-> limit, since_id |-> since_id, updated_after |-> updated_after,
   latest_slug |-> ""]

\* the code of SyncManager.fullSyncFromServer after its await (lines 75-93):
\* the service never rejects, so only the finally block runs
FullSyncEpilogue(w, p) ==
  IF p.isFullSync /\ w.settings.lastSyncId = "" /\ w.settings.lastSyncTime = 0
  THEN [w EXCEPT !.settings.noteFetchLimit = p.pre.noteFetchLimit]
  ELSE w

\* a pass leaves syncFromServer / syncToServer: the finally block, then the
\* continuation of the caller
Exit(w, p, exit) ==
  [w |-> FullSyncEpilogue(Finally(w, p.svc), p), p |-> Done(p, exit)]

\* the catch block with no finally block after it: the pass returns with
\* the flags of the service as they are
CatchSync_NoFinally(w, p, message) ==
  [w |-> Notice(PushError(w, p.svc, "", message), "Sync error"),
   p |-> Done(p, "catch")]

\* the catch block of syncFromServer / syncToServer
CatchSync(w, p, message) ==
  Exit(Notice(PushError(w, p.svc, "", message), "Sync error"), p, "catch")

\* ------------------------------------------------ LuojiLabSyncService: pull
SyncFolder == "notes"
FlomoSyncDirectory == "flomo-notes"

\* the scan of findExistingNoteByRemoteId: every file of the sync folder
\* with a remote_id enters the new cache, the last file carrying remoteId is
\* the one found
RECURSIVE ScanForRemoteId(_, _, _, _, _)
ScanForRemoteId(v, idxs, remoteId, newCache, foundFile) ==
  IF idxs = <<>> THEN [cache |-> newCache, found |-> foundFile]
  ELSE LET j == Head(idxs)
           frontMatter == parseFrontMatter(v[j])
       IN  IF v[j].hasFm /\ frontMatter.remote_id # ""
           THEN ScanForRemoteId(v, Tail(idxs), remoteId,
                  (frontMatter.remote_id :> [dir |-> v[j].dir, name |-> v[j].name])
                     @@ newCache,
                  IF frontMatter.remote_id = remoteId THEN j ELSE foundFile)
           ELSE ScanForRemoteId(v, Tail(idxs), remoteId, newCache, foundFile)

\* findExistingNoteByRemoteId returning the cached file without reading its
\* front matter
findExistingNoteByRemoteId_TrustCache(w, remoteId) ==
  LET idToPathCache == w.data.idToPathCache
      cachedFile == IF remoteId \in DOMAIN idToPathCache
                    THEN getAbstractFileByPath(w.vault, idToPathCache[remoteId].dir,
                                               idToPathCache[remoteId].name)
                    ELSE 0
  IN  IF cachedFile # 0
      THEN [w |-> w, file |-> cachedFile]
      ELSE LET r == ScanForRemoteId(w.vault, SortedIdx(FilesIn(w.vault, SyncFolder)),
                                    remoteId, idToPathCache, 0)
           IN  [w |-> [w EXCEPT !.data.idToPathCache = r.cache], file |-> r.found]

\* LuojiLabSyncService.findExistingNoteByRemoteId: the index of the file (0
\* for null) and the world with the rebuilt cache saved
findExistingNoteByRemoteId(w, remoteId) ==
  LET idToPathCache == w.data.idToPathCache
      cachedFile == IF remoteId \in DOMAIN idToPathCache
                    THEN getAbstractFileByPath(w.vault, idToPathCache[remoteId].dir,
                                               idToPathCache[remoteId].name)
                    ELSE 0
  IN  IF cachedFile # 0 /\ w.vault[cachedFile].hasFm
         /\ parseFrontMatter(w.vault[cachedFile]).remote_id = remoteId
      THEN [w |-> w, file |-> cachedFile]
      ELSE LET r == ScanForRemoteId(w.vault, SortedIdx(FilesIn(w.vault, SyncFolder)),
                                    remoteId, idToPathCache, 0)
           IN  [w |-> [w EXCEPT !.data.idToPathCache = r.cache], file |-> r.found]

\* LuojiLabSyncService.hasConflict
hasConflict(remoteMemo, existingFile) ==
  extractNoteContent(existingFile) # remoteMemo.content

\* createOrUpdateLocalNote writing a new note over the file that holds its
\* name instead of choosing another name
createOrUpdateLocalNote_Overwrite(w, remoteMemo, writeOk) ==
  IF remoteMemo.content = "" /\ remoteMemo.title = ""
  THEN [w |-> w, threw |-> FALSE]
  ELSE
    LET f == findExistingNoteByRemoteId(w, remoteMemo.id)
        w1 == f.w
        n0 == getFileName(remoteMemo, FALSE)
        held == getAbstractFileByPath(w1.vault, SyncFolder, n0)
        target == IF f.file # 0 THEN f.file ELSE held
    IN  IF ~writeOk THEN [w |-> w1, threw |-> TRUE]
        ELSE IF target # 0
        THEN [w |-> [w1 EXCEPT !.vault =
                       Modify(@, target, formatNoteContent(remoteMemo))],
              threw |-> FALSE]
        ELSE [w |-> [w1 EXCEPT
                       !.vault = Append(@, MkFile(SyncFolder, n0,
                                           formatNoteContent(remoteMemo))),
                       !.data.idToPathCache =
                          (remoteMemo.id :> [dir |-> SyncFolder, name |-> n0]) @@ @],
              threw |-> FALSE]

\* LuojiLabSyncService.createOrUpdateLocalNote; writeOk is whether the
\* vault's modify / create succeeded.  The result is the world and whether
\* the method threw.
createOrUpdateLocalNote(w, remoteMemo, writeOk) ==
  IF remoteMemo.content = "" /\ remoteMemo.title = ""
  THEN [w |-> w, threw |-> FALSE]
  ELSE
    LET f == findExistingNoteByRemoteId(w, remoteMemo.id)
        w1 == f.w
    IN  IF f.file # 0
        THEN IF ~writeOk THEN [w |-> w1, threw |-> TRUE]
             ELSE IF hasConflict(remoteMemo, w1.vault[f.file])
             THEN [w |-> [w1 EXCEPT !.vault =
                            Modify(@, f.file, formatConflictContent(remoteMemo))],
                   threw |-> FALSE]
             ELSE [w |-> [w1 EXCEPT !.vault =
                            Modify(@, f.file, formatNoteContent(remoteMemo))],
                   threw |-> FALSE]
        ELSE
          LET n0 == getFileName(remoteMemo, FALSE)
              n1 == getFileName(remoteMemo, TRUE)
              fileName ==
                IF getAbstractFileByPath(w1.vault, SyncFolder, n0) = 0 THEN n0
                ELSE IF getAbstractFileByPath(w1.vault, SyncFolder, n1) = 0 THEN n1
                ELSE timestampedName(remoteMemo)
          IN  IF ~writeOk \/ getAbstractFileByPath(w1.vault, SyncFolder, fileName) # 0
              THEN [w |-> w1, threw |-> TRUE]
              ELSE [w |-> [w1 EXCEPT
                             !.vault = Append(@, MkFile(SyncFolder, fileName,
                                                 formatNoteContent(remoteMemo))),
                             !.data.idToPathCache =
                                (remoteMemo.id :> [dir |-> SyncFolder, name |-> fileName])
                                  @@ @],
                    threw |-> FALSE]

\* the code after the item loop putting the cursor back to its value of
\* before the pass when an item failed or the loop was cancelled
LPullComplete_CursorBack(w, p) ==
  LET s == p.svc
      w0 == IF p.errorCount > 0 \/ p.cancelled
            THEN [w EXCEPT !.settings.lastSyncId = p.pre.lastSyncId]
            ELSE w
      w1 == saveSettings(w0, TRUE)
      w2 == SetProgress(w1, s, w1.services[s].syncStatus.progress.total,
                        Len(p.notes), "Completed")
  IN  Exit(Notice(w2, "Sync completed"), p, "end")

\* the code after the item loop of LuojiLab's syncFromServer (lines 178-185)
\* and the finally block; the saveSettings is not awaited
LPullComplete(w, p) ==
  LET s == p.svc
      w1 == saveSettings(w, TRUE)
      w2 == SetProgress(w1, s, w1.services[s].syncStatus.progress.total,
                        Len(p.notes), "Completed")
  IN  Exit(Notice(w2, "Sync completed"), p, "end")

\* the head of the item loop (lines 139-158): runs to the next await
RECURSIVE LPullLoop(_, _)
LPullLoop(w, p) ==
  LET s == p.svc IN
  IF p.i >= Len(p.notes) THEN LPullComplete(w, p)
  ELSE IF w.services[s].cancelRequested
  THEN LPullComplete(w, [p EXCEPT !.cancelled = TRUE])
  ELSE LET note == p.notes[p.i + 1] IN
       IF note.id \in p.processedNoteIds
       THEN LPullLoop(w, [p EXCEPT !.skipCount = @ + 1, !.i = @ + 1])
       ELSE [w |-> SetProgress(w, s, w.services[s].syncStatus.progress.total,
                               p.i, "Processing note"),
             p |-> [p EXCEPT !.processedNoteIds = @ \cup {note.id},
                             !.pc = "item"]]

\* LuojiLabSyncService.fetchRemoteNotesWithPagination, lines 406-427: the
\* query of the request
PaginationRequest(limit, sinceTimestamp, sinceId) ==
  Req(IF limit > 0 THEN limit ELSE 0,
      IF sinceId # "" THEN sinceId ELSE "",
      IF sinceId = "" /\ sinceTimestamp > 0 THEN sinceTimestamp ELSE 0)

\* the fetch mode with the time filter tried before the id cursor
LPullRequest_TimeBeforeId(w, p) ==
  LET st == w.settings
      all == [p EXCEPT !.mode = "all", !.pc = "fetch", !.page = 1,
                       !.reqs = Append(@, Req(pageSize, "", 0))]
      paged(r) == [p EXCEPT !.mode = "page", !.pc = "fetch", !.reqs = Append(@, r)]
  IN  IF p.isFullSync THEN all
      ELSE IF st.lastSyncTime > 0
      THEN paged(PaginationRequest(IF p.isAutoSync THEN 0 ELSE st.noteFetchLimit,
                                   st.lastSyncTime, ""))
      ELSE IF st.lastSyncId # ""
      THEN paged(PaginationRequest(IF p.isAutoSync THEN 0 ELSE st.noteFetchLimit,
                                   0, st.lastSyncId))
      ELSE IF st.noteFetchLimit > 0
      THEN paged(PaginationRequest(st.noteFetchLimit, 0, ""))
      ELSE all

\* syncFromServer lines 69-104: the fetch mode and the first request
LPullRequest(w, p) ==
  LET st == w.settings
      hasLastSyncId == st.lastSyncId # ""
      useIncrementalSync == st.lastSyncTime > 0
      all == [p EXCEPT !.mode = "all", !.pc = "fetch", !.page = 1,
                       !.reqs = Append(@, Req(pageSize, "", 0))]
      paged(r) == [p EXCEPT !.mode = "page", !.pc = "fetch", !.reqs = Append(@, r)]
  IN  IF p.isFullSync THEN all
      ELSE IF hasLastSyncId
      THEN paged(PaginationRequest(
                   IF p.isAutoSync \/ useIncrementalSync THEN 0 ELSE st.noteFetchLimit,
                   0, st.lastSyncId))
      ELSE IF useIncrementalSync
      THEN paged(PaginationRequest(
                   IF p.isAutoSync THEN 0 ELSE st.noteFetchLimit,
                   st.lastSyncTime, ""))
      ELSE IF st.noteFetchLimit > 0
      THEN paged(PaginationRequest(st.noteFetchLimit, 0, ""))
      ELSE all

\* the code after the fetch with the cursor left for the end of the pass: the
\* item loop starts at once
LPullFetched_CursorNotStored(w, p0, notes) ==
  LET s == p0.svc
      p == [p0 EXCEPT !.notes = notes, !.total = Len(notes)]
  IN  IF w.services[s].cancelRequested
      THEN Exit(Notice(w, "Sync cancelled"), p, "return_cancelled")
      ELSE LET w1 == Notice(SetProgress(w, s, Len(notes), 0, "Fetching notes"),
                            "Fetched notes from server") IN
           IF Len(notes) = 0
           THEN Exit(Notice(w1, "No new notes to sync from server"), p, "return_empty")
           ELSE LPullLoop(w1, p)

\* syncFromServer lines 106-125: from the fetched notes to the await of the
\* first saveSettings
LPullFetched(w, p0, notes) ==
  LET s == p0.svc
      p == [p0 EXCEPT !.notes = notes, !.total = Len(notes)]
  IN  IF w.services[s].cancelRequested
      THEN Exit(Notice(w, "Sync cancelled"), p, "return_cancelled")
      ELSE LET w1 == Notice(SetProgress(w, s, Len(notes), 0, "Fetching notes"),
                            "Fetched notes from server") IN
           IF Len(notes) = 0
           THEN Exit(Notice(w1, "No new notes to sync from server"), p, "return_empty")
           ELSE [w |-> [w1 EXCEPT !.settings.lastSyncId = notes[1].id],
                 p |-> [p EXCEPT !.pc = "save"]]

\* the loop test of fetchAllNotes without the test of cancelRequested
LFetchAllLoop_CancelNotPolled(w, p) ==
  IF p.hasMore /\ p.page <= maxPages /\ p.lastId # ""
  THEN [w |-> w,
        p |-> [p EXCEPT !.reqs = Append(@, Req(pageSize, p.lastId, 0))]]
  ELSE LPullFetched(w, p, p.notes)

\* the loop test of fetchAllNotes without the page ceiling
LFetchAllLoop_NoCeiling(w, p) ==
  IF p.hasMore /\ ~w.services[p.svc].cancelRequested /\ p.lastId # ""
  THEN [w |-> w,
        p |-> [p EXCEPT !.reqs = Append(@, Req(pageSize, p.lastId, 0))]]
  ELSE LPullFetched(w, p, p.notes)

\* fetchAllNotes lines 512-575 from the loop test: the next request, or the
\* return of allNotes
LFetchAllLoop(w, p) ==
  IF p.hasMore /\ p.page <= maxPages /\ ~w.services[p.svc].cancelRequested
     /\ p.lastId # ""
  THEN [w |-> w,
        p |-> [p EXCEPT !.reqs = Append(@, Req(pageSize, p.lastId, 0))]]
  ELSE LPullFetched(w, p, p.notes)

\* the answer to a request of the pull: resp is [ok, list, has_more], ok
\* FALSE for a failed request or a non-2xx status
LPullAnswer(w, p, resp) ==
  IF p.mode = "page"
  THEN IF ~resp.ok
       THEN CatchSync(PushError(w, p.svc, "", "API request failed"), p,
                      "Failed to fetch notes")
       ELSE LPullFetched(w, p, resp.list)
  ELSE IF ~resp.ok THEN CatchSync(w, p, "API request failed")
  ELSE IF Len(resp.list) = 0
  THEN LPullFetched(w, p, IF p.page = 1 THEN <<>> ELSE p.notes)
  ELSE LFetchAllLoop(w, [p EXCEPT !.notes = @ \o resp.list,
                                  !.hasMore = resp.has_more,
                                  !.lastId = resp.list[Len(resp.list)].id,
                                  !.page = @ + 1])

\* ------------------------------------------------- FlomoSyncService: pull
\* JSON.stringify of a string
Stringify(text) == "\"" \o text \o "\""

\* FlomoSyncService.formatNoteContent: every scalar is written as
\* JSON.stringify(value), so a string value is written between quotes
\* (a number is written as its digits); "" stands for a key that is absent
FlomoFormatNoteContent(frontMatter, content) ==
  [hasFm |-> TRUE,
   fm |-> [frontMatter EXCEPT !.remote_id = IF @ = "" THEN "" ELSE Stringify(@),
                              !.memo_id = IF @ = "" THEN "" ELSE Stringify(@),
                              !.slug = IF @ = "" THEN "" ELSE Stringify(@),
                              !.title = IF @ = "" THEN "" ELSE Stringify(@),
                              !.sync_status = Stringify(@)],
   body |-> content]

\* FlomoSyncService.parseFrontMatter: the value of a key is the text after
\* the colon, trimmed, as it is (parseInt reads the numbers)
FlomoParseFrontMatter(file) == IF file.hasFm THEN file.fm ELSE NoFm

\* FlomoSyncService.extractContentWithoutFrontmatter
extractContentWithoutFrontmatter(file) == file.body

\* FlomoSyncService.findExistingMemoFile: the first file of the directory
\* whose front matter carries memoId, 0 for null
findExistingMemoFile(v, memoId) ==
  LET hits == { j \in FilesIn(v, FlomoSyncDirectory) :
                  v[j].hasFm /\ FlomoParseFrontMatter(v[j]).memo_id = memoId }
  IN  IF hits = {} THEN 0 ELSE CHOOSE j \in hits : \A k \in hits : j <= k

\* FlomoSyncService.findLatestSyncedMemo: slug and updated_at of the file
\* with the greatest last_synced, as its front matter reads; NoFm for null
findLatestSyncedMemo(v) ==
  LET cands == { j \in FilesIn(v, FlomoSyncDirectory) :
                   v[j].hasFm /\ FlomoParseFrontMatter(v[j]).last_synced > 0 }
  IN  IF cands = {} THEN NoFm
      ELSE LET j == CHOOSE x \in cands :
                      \A y \in cands :
                         \/ v[x].fm.last_synced > v[y].fm.last_synced
                         \/ (v[x].fm.last_synced = v[y].fm.last_synced /\ x <= y)
           IN  FlomoParseFrontMatter(v[j])

\* the keys of the parameters of the Flomo requests in the order of
\* Object.keys(...).sort()
KeyOrder ==
  <<"api_key", "app_version", "content", "created_at", "file_ids",
    "latest_slug", "latest_updated_at", "limit", "memo_id", "order",
    "platform", "source", "timestamp", "token", "tz", "updated_at", "webp">>

\* Object.keys(params).sort().map(key => key=value).join("&"): the pairs of
\* a parameter function in the order of their keys
ParamStr(params) ==
  LET keys == SelectSeq(KeyOrder, LAMBDA key : key \in DOMAIN params)
  IN  [n \in 1..Len(keys) |-> <<keys[n], params[keys[n]]>>]

\* FlomoSyncService.salt, the shared secret
salt == "dbbc3dd73364b4084c3a69346e0ce2b2"

\* crypto.createHash("md5").update(text).digest("hex"): a hash is equal to
\* another only when the hashed texts are
Md5(text) == <<"md5", text>>

\* the sign of a parameter function (lines 349-357, 864-873, 942-951)
Sign(params) == Md5(<<ParamStr(params), salt>>)

\* a function with one more key
With(params, key, value) ==
  [x \in DOMAIN params \cup {key} |-> IF x = key THEN value ELSE params[x]]

\* FlomoSyncService._getParams, lines 333-360: the parameters and their sign
getParams(w, latest_slug, latest_updated_at) ==
  LET base == [x \in {"limit", "tz", "timestamp", "api_key", "app_version",
                      "order", "token"} |->
                 CASE x = "limit" -> ToString(FlomoFetchLimit)
                   [] x = "tz" -> "8:0"
                   [] x = "timestamp" -> ToString(now)
                   [] x = "api_key" -> "flomo_web"
                   [] x = "app_version" -> "2.0"
                   [] x = "order" -> "latest"
                   [] x = "token" -> w.settings.flomoApiToken]
      paramsSorted ==
        IF latest_slug # "" /\ latest_updated_at # 0
        THEN With(With(base, "latest_slug", latest_slug),
                  "latest_updated_at", ToString(latest_updated_at))
        ELSE base
  IN  [method |-> "GET", params |-> paramsSorted, sign |-> Sign(paramsSorted)]

\* the request of fetchMemos on the wire (lines 369-399)
FlomoQuery(w, s) ==
  LET latest == IF w.services[s].syncStatus.lastSync > 0
                THEN findLatestSyncedMemo(w.vault) ELSE NoFm
  IN  getParams(w, latest.slug, latest.updated_at)

\* the request of testConnection (lines 267-280): the parameters of
\* _getParams({}) with limit set to 1 afterwards
TestRequest(w) ==
  LET r == getParams(w, "", 0)
  IN  [r EXCEPT !.params = With(@, "limit", "1")]

\* the body of the PUT of createMemoOnFlomo (memoId "") or updateMemoOnFlomo
\* with its sign (lines 848-875, 925-953)
MemoPut(memoId, content) ==
  LET keys == {"content", "source", "file_ids", "tz", "timestamp", "api_key",
               "app_version", "platform", "webp"}
               \cup (IF memoId = "" THEN {"created_at"} ELSE {"memo_id", "updated_at"})
      requestBody ==
        [x \in keys |->
           CASE x = "content" -> content
             [] x = "source" -> "obsidian"
             [] x = "file_ids" -> ""
             [] x = "tz" -> "8:0"
             [] x \in {"timestamp", "created_at", "updated_at"} -> ToString(now)
             [] x = "api_key" -> "flomo_web"
             [] x = "app_version" -> "4.0"
             [] x = "platform" -> "web"
             [] x = "webp" -> "1"
             [] x = "memo_id" -> memoId]
  IN  [method |-> "PUT", params |-> requestBody, sign |-> Sign(requestBody)]

\* FlomoSyncService._getParams with the params of fetchMemos: the request
FlomoRequest(w, s) ==
  LET latest == IF w.services[s].syncStatus.lastSync > 0
                THEN findLatestSyncedMemo(w.vault) ELSE NoFm
      cursor == latest.slug # "" /\ latest.updated_at # 0
  IN  [limit |-> FlomoFetchLimit, since_id |-> "",
       updated_after |-> IF cursor THEN latest.updated_at ELSE 0,
       latest_slug |-> IF cursor THEN latest.slug ELSE ""]

\* FlomoSyncService.hasConflict
FlomoHasConflict(localFrontMatter, remoteMemo, file) ==
  /\ localFrontMatter.last_synced # 0
  /\ file.mtime > localFrontMatter.last_synced
  /\ remoteMemo.updated_at # localFrontMatter.updated_at

FlomoFrontMatter(memo) ==
  [NoFm EXCEPT !.memo_id = memo.memo_id, !.slug = memo.slug,
               !.updated_at = memo.updated_at, !.last_synced = now,
               !.sync_status = "synced"]

\* FlomoSyncService.handleConflict
handleConflict(w, s, j, remoteMemo, remoteContent) ==
  LET conflictResolution == w.settings.conflictResolution
      file == w.vault[j]
  IN  IF conflictResolution = "remote"
      THEN [w EXCEPT !.vault = Modify(@, j, remoteContent)]
      ELSE IF conflictResolution = "local"
      THEN [w EXCEPT !.vault = Modify(@, j,
              FlomoFormatNoteContent(FlomoFrontMatter(remoteMemo),
                                     extractContentWithoutFrontmatter(file)))]
      ELSE LET conflictContent ==
                 [hasFm |-> TRUE,
                  fm |-> [NoFm EXCEPT !.memo_id = remoteMemo.memo_id,
                                      !.updated_at = remoteMemo.updated_at,
                                      !.last_synced = now,
                                      !.sync_status = "'conflict'"],
                  body |-> "<<<<<<< LOCAL VERSION " \o extractContentWithoutFrontmatter(file)
                             \o " ======= " \o remoteMemo.content
                             \o " >>>>>>> REMOTE VERSION"]
           IN  Notice(PushError([w EXCEPT !.vault = Modify(@, j, conflictContent)],
                                s, file.name, "Content conflict detected"),
                      "Conflict detected")

\* FlomoSyncService.saveFlomoNoteToLocal; writeOk is whether the vault's
\* modify / create succeeded.  The result is the world and whether the
\* method threw (its catch has recorded the error by then).
saveFlomoNoteToLocal(w, s, memo, writeOk) ==
  LET fileName == "d-" \o memo.slug \o ".md"
      existingFile == findExistingMemoFile(w.vault, memo.memo_id)
      mdContent == FlomoFormatNoteContent(FlomoFrontMatter(memo), memo.content)
      thrown == [w |-> PushError(w, s, "", "Error saving Flomo note"), threw |-> TRUE]
  IN  IF ~writeOk THEN thrown
      ELSE IF existingFile # 0
      THEN IF FlomoHasConflict(FlomoParseFrontMatter(w.vault[existingFile]), memo,
                               w.vault[existingFile])
           THEN [w |-> handleConflict(w, s, existingFile, memo, mdContent),
                 threw |-> FALSE]
           ELSE [w |-> [w EXCEPT !.vault = Modify(@, existingFile, mdContent)],
                 threw |-> FALSE]
      ELSE IF getAbstractFileByPath(w.vault, FlomoSyncDirectory, fileName) # 0
      THEN thrown
      ELSE [w |-> [w EXCEPT !.vault =
                     Append(@, MkFile(FlomoSyncDirectory, fileName, mdContent))],
            threw |-> FALSE]

\* the loop test without the cancelRequested conjunct
FPullLoop_CancelNotPolled(w, p) ==
  LET s == p.svc IN
  IF p.i < Len(p.notes)
  THEN [w |-> SetProgress(w, s, w.services[s].syncStatus.progress.total, p.i,
                          p.notes[p.i + 1].slug),
        p |-> [p EXCEPT !.pc = "item"]]
  ELSE [w |-> [w EXCEPT !.settings.lastSyncTime = now,
                        !.services[s].syncStatus.lastSync = now],
        p |-> [p EXCEPT !.pc = "save", !.cancelled = p.i < Len(p.notes)]]

\* syncFromServer of Flomo from the loop test (line 85) to the next await:
\* the next item, or the saveSettings after the loop (lines 108-111)
FPullLoop(w, p) ==
  LET s == p.svc IN
  IF p.i < Len(p.notes) /\ ~w.services[s].cancelRequested
  THEN [w |-> SetProgress(w, s, w.services[s].syncStatus.progress.total, p.i,
                          p.notes[p.i + 1].slug),
        p |-> [p EXCEPT !.pc = "item"]]
  ELSE [w |-> [w EXCEPT !.settings.lastSyncTime = now,
                        !.services[s].syncStatus.lastSync = now],
        p |-> [p EXCEPT !.pc = "save", !.cancelled = p.i < Len(p.notes)]]

\* syncFromServer of Flomo lines 70-82: after fetchMemos returned
FPullFetched(w, p0, memos) ==
  LET s == p0.svc
      p == [p0 EXCEPT !.notes = memos, !.total = Len(memos)]
  IN  IF w.services[s].cancelRequested
      THEN Exit(Notice(w, "Sync cancelled"), p, "return_cancelled")
      ELSE LET w1 == Notice(SetProgress(w, s, Len(memos), 0, "Fetching memos"),
                            "Fetched memos from Flomo") IN
           IF Len(memos) = 0
           THEN Exit(Notice(w1, "No new memos to sync from Flomo"), p, "return_empty")
           ELSE FPullLoop(w1, p)

\* the transient failures fetchMemos retries (lines 405-411, 432-438)
retryLimit == 3

\* Math.pow(2, retryCount) * 1000: the milliseconds fetchMemos waits before
\* its next attempt
retryDelay(retryCount) == (2 ^ retryCount) * 1000

\* the answer to the request of fetchMemos with a retry after every failure
FPullAnswer_RetryEveryFailure(w, p, resp) ==
  IF resp.ok THEN FPullFetched(w, p, resp.list)
  ELSE IF p.retryCount < retryLimit
  THEN [w |-> Send(w, FlomoQuery(w, p.svc)),
        p |-> [p EXCEPT !.retryCount = @ + 1,
                        !.waits = Append(@, retryDelay(p.retryCount)),
                        !.reqs = Append(@, FlomoRequest(w, p.svc))]]
  ELSE CatchSync(w, p, "Error fetching Flomo memos")

\* the answer to the request of fetchMemos: resp is [ok, transient, list];
\* a retry waits retryDelay and calls fetchMemos(retryCount + 1)
FPullAnswer(w, p, resp) ==
  IF resp.ok THEN FPullFetched(w, p, resp.list)
  ELSE IF resp.transient /\ p.retryCount < retryLimit
  THEN [w |-> Send(w, FlomoQuery(w, p.svc)),
        p |-> [p EXCEPT !.retryCount = @ + 1,
                        !.waits = Append(@, retryDelay(p.retryCount)),
                        !.reqs = Append(@, FlomoRequest(w, p.svc))]]
  ELSE CatchSync(w, p, "Error fetching Flomo memos")

\* ------------------------------------------------------------------- push
\* the id the Flomo server assigns to its n-th memo
ServerId(n) == "m" \o ToString(n)

\* LuojiLabSyncService.createNoteOnServer: POST /notes stores a new note
createNoteOnServer(w) == [w EXCEPT !.remote.luojilab = @ + 1]

\* LuojiLabSyncService.updateNoteOnServer
updateNoteOnServer(w) == createNoteOnServer(w)

\* FlomoSyncService.createMemoOnFlomo: PUT /memo without memo_id stores a
\* new memo
createMemoOnFlomo(w) == [w EXCEPT !.remote.flomo = @ + 1]

\* FlomoSyncService.updateMemoOnFlomo: PUT /memo with memo_id rewrites that
\* memo
updateMemoOnFlomo(w) == w

\* LuojiLab syncToServer from the loop test (line 237) to the next await
LPushLoop(w, p) ==
  LET s == p.svc IN
  IF p.i < Len(p.files) /\ ~w.services[s].cancelRequested
  THEN [w |-> SetProgress(w, s, w.services[s].syncStatus.progress.total, p.i,
                          w.vault[p.files[p.i + 1]].name),
        p |-> [p EXCEPT !.pc = "item"]]
  ELSE Exit(Notice(w, "Sync to server completed"),
            [p EXCEPT !.cancelled = p.i < Len(p.files)], "end")

\* LuojiLab syncToServer lines 242-255: one file; res is "ok" or "throw"
\* (the read or the POST failed)
LPushFile(w, p, res) ==
  LET file == w.vault[p.files[p.i + 1]]
      frontMatter == parseFrontMatter(file)
  IN  IF res # "ok" THEN CatchSync(w, p, "Failed to create note")
      ELSE LPushLoop(IF file.hasFm /\ frontMatter.remote_id # ""
                     THEN updateNoteOnServer(w)
                     ELSE createNoteOnServer(w),
                     [p EXCEPT !.handled = Append(@, p.i), !.i = @ + 1])

\* Flomo syncToServer from the loop test (line 169) to the next await
FPushLoop(w, p) ==
  LET s == p.svc IN
  IF p.i < Len(p.files) /\ ~w.services[s].cancelRequested
  THEN [w |-> SetProgress(w, s, w.services[s].syncStatus.progress.total, p.i,
                          w.vault[p.files[p.i + 1]].name),
        p |-> [p EXCEPT !.pc = "item"]]
  ELSE IF w.services[s].cancelRequested
  THEN Exit(Notice(w, "Sync to Flomo cancelled"),
            [p EXCEPT !.cancelled = p.i < Len(p.files)], "return_cancelled")
  ELSE [w |-> [w EXCEPT !.settings.lastSyncTime = now,
                        !.services[s].syncStatus.lastSync = now],
        p |-> [p EXCEPT !.pc = "save"]]

\* Flomo syncToServer lines 174-216: one file; res is "ok", "apifail" (the
\* PUT failed or answered an error) or "throw" (the read or the modify
\* failed)
FPushFile(w0, p, res) ==
  LET s == p.svc
      j == p.files[p.i + 1]
      file == w0.vault[j]
      frontMatter == FlomoParseFrontMatter(file)
      noteContent == extractContentWithoutFrontmatter(file)
      w == IF res = "throw" THEN w0
           ELSE Send(w0, MemoPut(IF file.hasFm THEN frontMatter.memo_id ELSE "",
                                 noteContent))
      next == [p EXCEPT !.handled = Append(@, p.i), !.i = @ + 1]
      ok == [next EXCEPT !.successCount = @ + 1]
      failed == next
  IN  IF res = "throw" THEN CatchSync(w, p, "Sync to Flomo error")
      ELSE IF file.hasFm /\ frontMatter.memo_id # ""
      THEN IF res = "ok" THEN FPushLoop(updateMemoOnFlomo(w), ok)
           ELSE FPushLoop(PushError(w, s, file.name, "Failed to update memo on Flomo"),
                          failed)
      ELSE IF res = "ok"
           THEN LET w1 == createMemoOnFlomo(w)
                    updatedFrontMatter ==
                      [frontMatter EXCEPT !.memo_id = ServerId(w1.remote.flomo),
                                          !.last_synced = now,
                                          !.sync_status = "synced"]
                IN  FPushLoop([w1 EXCEPT !.vault = Modify(@, j,
                                 FlomoFormatNoteContent(updatedFrontMatter, noteContent))],
                              ok)
           ELSE FPushLoop(PushError(w, s, file.name, "Failed to create memo on Flomo"),
                          failed)

\* ---------------------------------------------------------------- actions
\* an I/O operation succeeds or fails; the failures are counted
Io(ok) ==
  /\ ~ok => faults < MaxFaults
  /\ faults' = IF ok THEN faults ELSE faults + 1

cur == Len(services)        \* SyncManager.syncService

Commit(r, k) ==
  /\ settings' = r.w.settings
  /\ services' = r.w.services
  /\ data' = r.w.data
  /\ vault' = r.w.vault
  /\ remote' = r.w.remote
  /\ notice' = r.w.notice
  /\ sent' = r.w.sent
  /\ timers' = r.w.timers
  /\ passes' = IF k > Len(passes) THEN Append(passes, r.p)
               ELSE [passes EXCEPT ![k] = r.p]

CommitWorld(w) ==
  /\ settings' = w.settings
  /\ services' = w.services
  /\ data' = w.data
  /\ vault' = w.vault
  /\ remote' = w.remote
  /\ notice' = w.notice
  /\ sent' = w.sent
  /\ timers' = w.timers
  /\ UNCHANGED passes

Token(w, s) == IF w.services[s].kind = "luojilab" THEN w.settings.bearerToken
               ELSE w.settings.flomoApiToken

Snapshot(st) == [lastSyncId |-> st.lastSyncId, lastSyncTime |-> st.lastSyncTime,
                 noteFetchLimit |-> st.noteFetchLimit]

\* the guards without the isSyncing test
Rejection_NoSyncingGuard(w, s) ==
  IF Token(w, s) = "" THEN "Token not set" ELSE ""

\* the guards of syncFromServer / syncToServer (lines 35-43): the Notice of
\* a rejected invocation, "" when the invocation starts a pass
Rejection(w, s) ==
  IF w.services[s].isSyncing THEN "Sync already in progress"
  ELSE IF Token(w, s) = "" THEN "Token not set"
  ELSE ""

\* the beginning of a pull that leaves cancelRequested as the last pass left
\* it
BeginPull_CancelKept(w, s, isAutoSync, isFullSync, pre) ==
  [w |-> SetProgress([w EXCEPT !.services[s].isSyncing = TRUE,
                               !.services[s].syncStatus.inProgress = TRUE],
                     s, 0, 0, "Preparing to sync"),
   p |-> NewPass(s, "pull", w.services[s].kind, isAutoSync, isFullSync, pre)]

\* syncFromServer lines 45-63 (both services): the pass begins and suspends
\* in ensureSyncFolderExists
BeginPull(w, s, isAutoSync, isFullSync, pre) ==
  [w |-> SetProgress([w EXCEPT !.services[s].isSyncing = TRUE,
                               !.services[s].cancelRequested = FALSE,
                               !.services[s].syncStatus.inProgress = TRUE],
                     s, 0, 0, "Preparing to sync"),
   p |-> NewPass(s, "pull", w.services[s].kind, isAutoSync, isFullSync, pre)]

\* syncToServer up to its first await (LuojiLab lines 215-243, Flomo lines
\* 139-175)
BeginPush(w, s, pre) ==
  LET kind == w.services[s].kind
      files == SortedIdx(FilesIn(w.vault,
                 IF kind = "luojilab" THEN SyncFolder ELSE FlomoSyncDirectory))
      w1 == Notice(SetProgress([w EXCEPT !.services[s].isSyncing = TRUE,
                                         !.services[s].cancelRequested = FALSE,
                                         !.services[s].syncStatus.inProgress = TRUE],
                               s, Len(files), 0, "Preparing to sync to server"),
                   "Found local notes")
      p == [NewPass(s, "push", kind, FALSE, FALSE, pre)
              EXCEPT !.files = files, !.total = Len(files)]
  IN  IF kind = "luojilab" THEN LPushLoop(w1, p)
      ELSE IF Len(files) = 0
      THEN Exit(Notice(w1, "No files found to sync to Flomo"), p, "return_empty")
      ELSE FPushLoop(w1, p)

\* SyncManager.syncFromServer from a button or a command
SyncFromServer ==
  LET w == World IN
  IF Rejection(w, cur) # ""
  THEN CommitWorld(Notice(w, Rejection(w, cur))) /\ UNCHANGED <<now, faults>>
  ELSE /\ Len(passes) < MaxPasses
       /\ now' = now + 1
       /\ UNCHANGED faults
       /\ Commit(BeginPull(w, cur, FALSE, FALSE, Snapshot(settings)),
                 Len(passes) + 1)

\* SyncManager.fullSyncFromServer
FullSyncFromServer ==
  LET pre == Snapshot(settings)
      w == [World EXCEPT !.settings.lastSyncId = "",
                         !.settings.lastSyncTime = 0,
                         !.settings.noteFetchLimit = 0]
  IN  IF Rejection(w, cur) # ""
      THEN /\ CommitWorld([Notice(w, Rejection(w, cur))
                             EXCEPT !.settings.noteFetchLimit = pre.noteFetchLimit])
           /\ UNCHANGED <<now, faults>>
      ELSE /\ Len(passes) < MaxPasses
           /\ now' = now + 1
           /\ UNCHANGED faults
           /\ Commit(BeginPull(w, cur, FALSE, TRUE, pre), Len(passes) + 1)

\* SyncManager.syncToServer
SyncToServer ==
  LET w == World IN
  IF Rejection(w, cur) # ""
  THEN CommitWorld(Notice(w, Rejection(w, cur))) /\ UNCHANGED <<now, faults>>
  ELSE /\ Len(passes) < MaxPasses
       /\ now' = now + 1
       /\ UNCHANGED faults
       /\ Commit(BeginPush(w, cur, Snapshot(settings)), Len(passes) + 1)

\* SyncManager.cancelSync -> cancelSync of the current service
CancelSync ==
  /\ IF ~services[cur].isSyncing THEN CommitWorld(World)
     ELSE CommitWorld(Notice([World EXCEPT !.services[cur].cancelRequested = TRUE],
                             "Cancelling sync operation"))
  /\ UNCHANGED <<now, faults>>

\* the service dropdown of the settings tab and the tabs of the view:
\* settings.syncService = kind, saveSettings, SyncManager.updateSyncService
UpdateSyncService(kind) ==
  /\ Len(services) < MaxInst
  /\ LET w == saveSettings([World EXCEPT !.settings.syncService = kind], TRUE)
     IN  CommitWorld([w EXCEPT !.services = Append(@, NewService(kind, w.settings)),
                               !.timers.manager = w.settings.autoSync])
  /\ UNCHANGED <<now, faults>>

\* syncFromServer lines 66-67 (both services)
Fetching(w, s, text) ==
  Notice([w EXCEPT !.services[s].syncStatus.progress.currentFile = text],
         "Starting sync")

\* ensureSyncFolderExists answers
PullFolder(k, ok) ==
  /\ k \in 1..Len(passes)
  /\ passes[k].pc = "folder"
  /\ LET p == passes[k]
         w == World
     IN  IF ~ok THEN Commit(CatchSync(w, p, "Failed to create sync folder"), k)
         ELSE IF p.kind = "luojilab"
         THEN Commit([w |-> Fetching(w, p.svc, "Fetching notes from server"),
                      p |-> LPullRequest(w, p)], k)
         ELSE Commit([w |-> Send(Fetching(w, p.svc, "Fetching memos from Flomo"),
                                 FlomoQuery(w, p.svc)),
                      p |-> [p EXCEPT !.pc = "fetch",
                                      !.reqs = Append(@, FlomoRequest(w, p.svc))]], k)
  /\ UNCHANGED now /\ Io(ok)

\* the LuojiLab server answers a GET /notes
LPullFetch(k, resp) ==
  /\ k \in 1..Len(passes)
  /\ passes[k].pc = "fetch" /\ passes[k].kind = "luojilab"
  /\ resp.has_more => passes[k].page < MaxServerPages
  /\ Len(passes[k].notes) + Len(resp.list) <= MaxNotes
  /\ Commit(LPullAnswer(World, passes[k], resp), k)
  /\ UNCHANGED now /\ Io(resp.ok)

\* the Flomo server answers a GET /memo/updated
FPullFetch(k, resp) ==
  /\ k \in 1..Len(passes)
  /\ passes[k].pc = "fetch" /\ passes[k].kind = "flomo"
  /\ Len(resp.list) <= MaxNotes
  /\ Commit(FPullAnswer(World, passes[k], resp), k)
  /\ UNCHANGED now /\ Io(resp.ok)

\* LuojiLab: the saveSettings of line 123 returns, lines 127-158 run
LPullSave(k, ok) ==
  /\ k \in 1..Len(passes)
  /\ passes[k].pc = "save" /\ passes[k].kind = "luojilab" /\ passes[k].dir = "pull"
  /\ LET p == passes[k]
         w == saveSettings(World, ok)
     IN  IF ~ok THEN Commit(CatchSync(w, p, "saveData failed"), k)
         ELSE Commit(LPullLoop([w EXCEPT !.settings.lastSyncTime = now], p), k)
  /\ UNCHANGED now /\ Io(ok)

\* the item step with a catch block that does not count the error
LPullItem_ErrorNotCounted(k, writeOk) ==
  /\ k \in 1..Len(passes)
  /\ passes[k].pc = "item" /\ passes[k].kind = "luojilab" /\ passes[k].dir = "pull"
  /\ LET p == passes[k]
         note == p.notes[p.i + 1]
         r == createOrUpdateLocalNote(World, note, writeOk)
         p1 == [p EXCEPT !.handled = Append(@, p.i), !.i = @ + 1]
     IN  IF r.threw
         THEN Commit(LPullLoop(PushError(r.w, p.svc, note.title, "Failed to save note"),
                               p1), k)
         ELSE Commit(LPullLoop(r.w, [p1 EXCEPT !.successCount = @ + 1]), k)
  /\ UNCHANGED now /\ Io(writeOk)

\* LuojiLab: createOrUpdateLocalNote of notes[i] returns (lines 160-176)
LPullItem(k, writeOk) ==
  /\ k \in 1..Len(passes)
  /\ passes[k].pc = "item" /\ passes[k].kind = "luojilab" /\ passes[k].dir = "pull"
  /\ LET p == passes[k]
         note == p.notes[p.i + 1]
         r == createOrUpdateLocalNote(World, note, writeOk)
         p1 == [p EXCEPT !.handled = Append(@, p.i), !.i = @ + 1]
     IN  IF r.threw
         THEN Commit(LPullLoop(PushError(r.w, p.svc, note.title, "Failed to save note"),
                               [p1 EXCEPT !.errorCount = @ + 1]), k)
         ELSE Commit(LPullLoop(r.w, [p1 EXCEPT !.successCount = @ + 1]), k)
  /\ UNCHANGED now /\ Io(writeOk)

\* Flomo: saveFlomoNoteToLocal of memos[i] returns (lines 85-106)
FPullItem(k, writeOk) ==
  /\ k \in 1..Len(passes)
  /\ passes[k].pc = "item" /\ passes[k].kind = "flomo" /\ passes[k].dir = "pull"
  /\ LET p == passes[k]
         r == saveFlomoNoteToLocal(World, p.svc, p.notes[p.i + 1], writeOk)
         p1 == [p EXCEPT !.handled = Append(@, p.i)]
     IN  IF r.threw THEN Commit(CatchSync(r.w, p1, "Error saving Flomo note"), k)
         ELSE Commit(FPullLoop(r.w, [p1 EXCEPT !.i = @ + 1]), k)
  /\ UNCHANGED now /\ Io(writeOk)

\* Flomo: the saveSettings after the loop returns (pull lines 111-113, push
\* lines 228-230)
FlomoSave(k, ok) ==
  /\ k \in 1..Len(passes)
  /\ passes[k].pc = "save" /\ passes[k].kind = "flomo"
  /\ LET p == passes[k]
         w == saveSettings(World, ok)
     IN  IF ~ok THEN Commit(CatchSync(w, p, "saveData failed"), k)
         ELSE Commit(Exit(Notice(w, IF p.dir = "pull" THEN "Sync from Flomo completed"
                                    ELSE "Sync to Flomo completed"), p, "end"), k)
  /\ UNCHANGED now /\ Io(ok)

\* push: the read and the request of files[i] return
PushItem(k, res) ==
  /\ k \in 1..Len(passes)
  /\ passes[k].pc = "item" /\ passes[k].dir = "push"
  /\ IF passes[k].kind = "luojilab"
     THEN res # "apifail" /\ Commit(LPushFile(World, passes[k], res), k)
     ELSE Commit(FPushFile(World, passes[k], res), k)
  /\ UNCHANGED now /\ Io(res = "ok")

\* ------------------------------------------------------------------- Init
\* DEFAULT_SETTINGS with the tokens entered and either service chosen
InitSettings ==
  [syncService : {"luojilab", "flomo"},
   bearerToken : {"tok"}, flomoApiToken : {"tok"},
   noteFetchLimit : {DefaultFetchLimit},
   conflictResolution : {"ask"},
   retryAttempts : {DefaultRetryAttempts},
   autoSync : {FALSE},
   lastSyncId : {""}, lastSyncTime : {0},
   idToPathCache : {<<>>}]

\* a note the user wrote, without front matter
UserNote(dir) ==
  [dir |-> dir, name |-> "u.md", hasFm |-> FALSE, fm |-> NoFm, body |-> "x",
   mtime |-> 1]

InitVaults == { <<UserNote(SyncFolder), UserNote(FlomoSyncDirectory)>> }

Init ==
  /\ settings \in InitSettings
  /\ faults = 0
  /\ data = settings
  /\ services = <<NewService(settings.syncService, settings)>>
  /\ passes = <<>>
  /\ vault \in InitVaults
  /\ remote = [luojilab |-> 0, flomo |-> 0]
  /\ notice = ""
  /\ sent = <<>>
  /\ timers = LoadedTimers(settings)
  /\ now = 1

Responses(n) == [ok : BOOLEAN, list : SeqsUpTo(RemoteNotes, n), has_more : BOOLEAN]
MemoResponses(n) == [ok : BOOLEAN, transient : BOOLEAN, list : SeqsUpTo(RemoteMemos, n)]

\* the steps of the passes, the servers answering pages of at most n notes
PassStep(n) ==
  \/ \E k \in 1..MaxPasses, ok \in BOOLEAN : PullFolder(k, ok)
  \/ \E k \in 1..MaxPasses, resp \in Responses(n) : LPullFetch(k, resp)
  \/ \E k \in 1..MaxPasses, resp \in MemoResponses(n) : FPullFetch(k, resp)
  \/ \E k \in 1..MaxPasses, ok \in BOOLEAN : LPullSave(k, ok)
  \/ \E k \in 1..MaxPasses, writeOk \in BOOLEAN : LPullItem(k, writeOk)
  \/ \E k \in 1..MaxPasses, writeOk \in BOOLEAN : FPullItem(k, writeOk)
  \/ \E k \in 1..MaxPasses, ok \in BOOLEAN : FlomoSave(k, ok)
  \/ \E k \in 1..MaxPasses, res \in {"ok", "apifail", "throw"} : PushItem(k, res)

\* one service for the whole run: the passes follow one another
Next ==
  \/ SyncFromServer
  \/ FullSyncFromServer
  \/ SyncToServer
  \/ CancelSync
  \/ PassStep(MaxBatch)

Spec == Init /\ [][Next]_vars

\* the service is switched during the run (pages of one note at most)
NextSwitch ==
  \/ SyncFromServer
  \/ SyncToServer
  \/ CancelSync
  \/ \E kind \in {"luojilab", "flomo"} : UpdateSyncService(kind)
  \/ PassStep(1)

SpecSwitch == Init /\ [][NextSwitch]_vars

\* ---------------------------------------------------------------- deadlines
\* whether the request the pull pass awaits races a timer: the paged fetch
\* (Promise.race, part_001 lines 402-442) and fetchMemos (fetchWithTimeout)
\* do, the page requests of fetchAllNotes are a bare fetch
HasDeadline(p) == p.kind = "flomo" \/ p.mode = "page"

\* the timer of the awaited GET fires before the server has answered: the
\* call rejects with 'Request timed out'
FetchTimeout(k) ==
  /\ k \in 1..Len(passes)
  /\ passes[k].pc = "fetch" /\ HasDeadline(passes[k])
  /\ IF passes[k].kind = "luojilab"
     THEN Commit(LPullAnswer(World, passes[k],
                             [ok |-> FALSE, list |-> <<>>, has_more |-> FALSE]), k)
     ELSE Commit(FPullAnswer(World, passes[k],
                             [ok |-> FALSE, transient |-> FALSE, list |-> <<>>]), k)
  /\ UNCHANGED <<now, faults>>

\* the timer of fetchWithTimeout fires during the request of a pushed file:
\* createNoteOnServer throws, createMemoOnFlomo / updateMemoOnFlomo answer
\* success: false
PushTimeout(k) ==
  /\ k \in 1..Len(passes)
  /\ passes[k].pc = "item" /\ passes[k].dir = "push"
  /\ IF passes[k].kind = "luojilab"
     THEN Commit(LPushFile(World, passes[k], "throw"), k)
     ELSE Commit(FPushFile(World, passes[k], "apifail"), k)
  /\ UNCHANGED <<now, faults>>

\* the servers may stay silent; the timers fire and the operations of the
\* host (vault, saveData) complete
NextLive ==
  \/ SyncFromServer
  \/ FullSyncFromServer
  \/ SyncToServer
  \/ CancelSync
  \/ PassStep(1)
  \/ \E k \in 1..MaxPasses : FetchTimeout(k)
  \/ \E k \in 1..MaxPasses : PushTimeout(k)

HostFairness ==
  /\ WF_vars(\E k \in 1..MaxPasses, ok \in BOOLEAN : PullFolder(k, ok))
  /\ WF_vars(\E k \in 1..MaxPasses, ok \in BOOLEAN : LPullSave(k, ok))
  /\ WF_vars(\E k \in 1..MaxPasses, writeOk \in BOOLEAN : LPullItem(k, writeOk))
  /\ WF_vars(\E k \in 1..MaxPasses, writeOk \in BOOLEAN : FPullItem(k, writeOk))
  /\ WF_vars(\E k \in 1..MaxPasses, ok \in BOOLEAN : FlomoSave(k, ok))
  /\ WF_vars(\E k \in 1..MaxPasses : FetchTimeout(k))
  /\ WF_vars(\E k \in 1..MaxPasses : PushTimeout(k))

SpecLive == Init /\ [][NextLive]_vars /\ HostFairness

\* ---------------------------------------------------------------- auto sync
\* one tick of the interval of SyncManager.scheduleAutoSync (autoSync on,
\* autoSyncInterval > 0): nothing when the status of the current service
\* reports inProgress, otherwise syncService.syncFromServer({isAutoSync: true})
AutoSyncTick ==
  LET w == World IN
  /\ timers.manager
  /\ IF services[cur].syncStatus.inProgress
     THEN CommitWorld(w) /\ UNCHANGED <<now, faults>>
     ELSE IF Rejection(w, cur) # ""
     THEN CommitWorld(Notice(w, Rejection(w, cur))) /\ UNCHANGED <<now, faults>>
     ELSE /\ Len(passes) < MaxPasses
          /\ now' = now + 1
          /\ UNCHANGED faults
          /\ Commit(BeginPull(w, cur, TRUE, FALSE, Snapshot(settings)),
                    Len(passes) + 1)

\* one tick of the interval of NotesSyncPlugin.startAutoSync:
\* await syncManager.syncFromServer(); await syncManager.syncToServer().
\* A rejected first call returns at once and the second call is rejected in
\* the same turn; after an accepted first call the second one is the
\* SyncToServer step taken when the pull has returned
PluginAutoSyncTick ==
  LET w == World IN
  /\ timers.plugin
  /\ IF Rejection(w, cur) # ""
     THEN CommitWorld(Notice(Notice(w, Rejection(w, cur)), Rejection(w, cur)))
          /\ UNCHANGED <<now, faults>>
     ELSE /\ Len(passes) < MaxPasses
          /\ now' = now + 1
          /\ UNCHANGED faults
          /\ Commit(BeginPull(w, cur, FALSE, FALSE, Snapshot(settings)),
                    Len(passes) + 1)

\* the plugin with auto sync enabled: the commands, the service selector and
\* the two timers
NextAuto ==
  \/ SyncFromServer
  \/ SyncToServer
  \/ CancelSync
  \/ \E kind \in {"luojilab", "flomo"} : UpdateSyncService(kind)
  \/ AutoSyncTick
  \/ PluginAutoSyncTick
  \/ PassStep(1)

\* the plugin loaded with auto sync enabled in the stored settings
InitAuto ==
  /\ settings \in { [st EXCEPT !.autoSync = TRUE] : st \in InitSettings }
  /\ faults = 0
  /\ data = settings
  /\ services = <<NewService(settings.syncService, settings)>>
  /\ passes = <<>>
  /\ vault \in InitVaults
  /\ remote = [luojilab |-> 0, flomo |-> 0]
  /\ notice = ""
  /\ sent = <<>>
  /\ timers = LoadedTimers(settings)
  /\ now = 1

SpecAuto == InitAuto /\ [][NextAuto]_vars

\* the Auto Sync toggle of the settings tab: settings.autoSync = value,
\* then saveSettings
SetAutoSync(value, ok) ==
  /\ CommitWorld(saveSettings([World EXCEPT !.settings.autoSync = value], ok))
  /\ UNCHANGED now /\ Io(ok)

\* the toggle, the two timers and the commands on one service
NextToggle ==
  \/ \E value \in BOOLEAN, ok \in BOOLEAN : SetAutoSync(value, ok)
  \/ AutoSyncTick
  \/ PluginAutoSyncTick
  \/ SyncFromServer
  \/ SyncToServer
  \/ CancelSync
  \/ PassStep(1)

SpecToggle == InitAuto /\ [][NextToggle]_vars

\* ------------------------------------------------------------- fetch modes
\* the plugin loaded with settings saved by earlier sessions: a cursor or
\* none, a time of the last sync or none, the fetch limit at its default or
\* set to 0 by the user
InitModes ==
  /\ settings \in [syncService : {"luojilab", "flomo"},
                    bearerToken : {"tok"}, flomoApiToken : {"tok"},
                    noteFetchLimit : {0, DefaultFetchLimit},
                    conflictResolution : {"ask"},
                    retryAttempts : {DefaultRetryAttempts},
                    autoSync : {TRUE},
                    lastSyncId : {"", "a"}, lastSyncTime : {0, 1},
                    idToPathCache : {<<>>}]
  /\ faults = 0
  /\ data = settings
  /\ services = <<NewService(settings.syncService, settings)>>
  /\ passes = <<>>
  /\ vault \in InitVaults
  /\ remote = [luojilab |-> 0, flomo |-> 0]
  /\ notice = ""
  /\ sent = <<>>
  /\ timers = LoadedTimers(settings)
  /\ now = 2

\* manual and timer-driven pulls, and pushes, on one service
NextModes ==
  \/ SyncFromServer
  \/ AutoSyncTick
  \/ SyncToServer
  \/ CancelSync
  \/ PassStep(1)

SpecModes == InitModes /\ [][NextModes]_vars

\* ------------------------------------------------------------ a long fetch
\* a LuojiLab server that answers every page request of fetchAllNotes, at
\* any page: nothing, or note a once more, with or without has_more, or an
\* error status
LoopingResponses ==
  [ok : BOOLEAN, list : {<<>>, <<CHOOSE n \in RemoteNotes : n.id = "a">>},
   has_more : BOOLEAN]

LPullFetchPage(k, resp) ==
  /\ k \in 1..Len(passes)
  /\ passes[k].pc = "fetch" /\ passes[k].kind = "luojilab"
  /\ passes[k].mode = "all"
  /\ Commit(LPullAnswer(World, passes[k], resp), k)
  /\ UNCHANGED now /\ Io(resp.ok)

\* one full sync of LuojiLab against that server, from the command to the
\* first item of the fetched notes
InitPages == Init /\ settings.syncService = "luojilab"

NextPages ==
  \/ passes = <<>> /\ FullSyncFromServer
  \/ CancelSync
  \/ \E k \in 1..MaxPasses, ok \in BOOLEAN : PullFolder(k, ok)
  \/ \E k \in 1..MaxPasses, resp \in LoopingResponses : LPullFetchPage(k, resp)
  \/ \E k \in 1..MaxPasses, ok \in BOOLEAN : LPullSave(k, ok)

SpecPages == InitPages /\ [][NextPages]_vars

\* ------------------------------------------------------- answers of Flomo
\* what the Flomo server may answer to GET /memo/updated: an HTTP status
\* (0 for a request that fails without one) and, with status 200, the code
\* of the body
FlomoStatuses == {0, 200, 401, 404, 429, 500, 503}
FlomoCodes == {0, -1, 1001, 1002}

\* fetchMemos lines 400-441: what it makes of an answer, in the terms of
\* FPullAnswer
Classify(status, code, list) ==
  [ok |-> status = 200 /\ code = 0,
   transient |-> IF status # 200 THEN status >= 500 \/ status = 429
                 ELSE code = 1001 \/ code = 1002,
   list |-> list]

FPullFetchStatus(k, status, code, list) ==
  /\ k \in 1..Len(passes)
  /\ passes[k].pc = "fetch" /\ passes[k].kind = "flomo"
  /\ Len(list) <= MaxNotes
  /\ status # 200 => code = 0 /\ list = <<>>
  /\ code # 0 => list = <<>>
  /\ Commit(FPullAnswer(World, passes[k], Classify(status, code, list)), k)
  /\ UNCHANGED <<now, faults>>

\* pulls of Flomo against a server that answers with any of these
InitRetry == Init /\ settings.syncService = "flomo"

NextRetry ==
  \/ SyncFromServer
  \/ CancelSync
  \/ \E k \in 1..MaxPasses, ok \in BOOLEAN : PullFolder(k, ok)
  \/ \E k \in 1..MaxPasses, status \in FlomoStatuses, code \in FlomoCodes,
         list \in SeqsUpTo(RemoteMemos, 1) : FPullFetchStatus(k, status, code, list)
  \/ \E k \in 1..MaxPasses, writeOk \in BOOLEAN : FPullItem(k, writeOk)
  \/ \E k \in 1..MaxPasses, ok \in BOOLEAN : FlomoSave(k, ok)

SpecRetry == InitRetry /\ [][NextRetry]_vars

\* --------------------------------------------------------- retry attempts
\* the Retry Attempts field of the settings tab: parseInt(value), stored and
\* saved when it is a number above 0
SetRetryAttempts(attempts) ==
  /\ IF attempts > 0
     THEN CommitWorld(saveSettings([World EXCEPT !.settings.retryAttempts = attempts],
                                   TRUE))
     ELSE CommitWorld(World)
  /\ UNCHANGED <<now, faults>>

\* pulls of either service with the number of attempts set by the user
NextAttempts ==
  \/ SyncFromServer
  \/ CancelSync
  \/ \E attempts \in 0..MaxAttempts : SetRetryAttempts(attempts)
  \/ \E k \in 1..MaxPasses, ok \in BOOLEAN : PullFolder(k, ok)
  \/ \E k \in 1..MaxPasses, resp \in Responses(1) : LPullFetch(k, resp)
  \/ \E k \in 1..MaxPasses, status \in FlomoStatuses, code \in FlomoCodes,
         list \in SeqsUpTo(RemoteMemos, 1) : FPullFetchStatus(k, status, code, list)
  \/ \E k \in 1..MaxPasses, ok \in BOOLEAN : LPullSave(k, ok)
  \/ \E k \in 1..MaxPasses, writeOk \in BOOLEAN : LPullItem(k, writeOk)
  \/ \E k \in 1..MaxPasses, writeOk \in BOOLEAN : FPullItem(k, writeOk)
  \/ \E k \in 1..MaxPasses, ok \in BOOLEAN : FlomoSave(k, ok)

SpecAttempts == Init /\ [][NextAttempts]_vars

\* ------------------------------------------------------- signed requests
\* SyncManager.testApiConnection with Flomo selected: testConnection up to
\* its request; the answer only makes the message it returns
TestConnection ==
  /\ services[cur].kind = "flomo"
  /\ IF World.settings.flomoApiToken = "" THEN CommitWorld(World)
     ELSE CommitWorld(Send(World, TestRequest(World)))
  /\ UNCHANGED <<now, faults>>

\* pulls, pushes and connection tests of Flomo
NextSign ==
  \/ TestConnection
  \/ SyncFromServer
  \/ SyncToServer
  \/ CancelSync
  \/ \E k \in 1..MaxPasses, ok \in BOOLEAN : PullFolder(k, ok)
  \/ \E k \in 1..MaxPasses, resp \in MemoResponses(1) : FPullFetch(k, resp)
  \/ \E k \in 1..MaxPasses, writeOk \in BOOLEAN : FPullItem(k, writeOk)
  \/ \E k \in 1..MaxPasses, ok \in BOOLEAN : FlomoSave(k, ok)
  \/ \E k \in 1..MaxPasses, res \in {"ok", "apifail", "throw"} : PushItem(k, res)

SpecSign == InitRetry /\ [][NextSign]_vars

\* the vault after an earlier pull of note / memo a whose files the user has
\* edited since: the LuojiLab file as serializeToMarkdown wrote it, the Flomo
\* file with its front matter in plain YAML (as a properties editor rewrites
\* it), both with a body of the user's
EditedNote ==
  [dir |-> SyncFolder, name |-> "t.md", hasFm |-> TRUE,
   fm |-> [NoFm EXCEPT !.remote_id = "a", !.title = "t", !.last_synced = 1,
                       !.sync_status = "synced"],
   body |-> "mine", mtime |-> 2]

EditedMemo ==
  [dir |-> FlomoSyncDirectory, name |-> "d-sa.md", hasFm |-> TRUE,
   fm |-> [NoFm EXCEPT !.memo_id = "a", !.slug = "sa", !.last_synced = 1,
                       !.sync_status = "synced"],
   body |-> "mine", mtime |-> 2]

\* the plugin loaded after that pull, with any conflict policy configured
InitConflict ==
  /\ settings \in [syncService : {"luojilab", "flomo"},
                   bearerToken : {"tok"}, flomoApiToken : {"tok"},
                   noteFetchLimit : {DefaultFetchLimit},
                   conflictResolution : {"ask", "local", "remote"},
                   retryAttempts : {DefaultRetryAttempts},
                   autoSync : {FALSE},
                   lastSyncId : {"a"}, lastSyncTime : {1},
                   idToPathCache : {<<>>}]
  /\ faults = 0
  /\ data = settings
  /\ services = <<NewService(settings.syncService, settings)>>
  /\ passes = <<>>
  /\ vault = <<EditedNote, EditedMemo>>
  /\ remote = [luojilab |-> 1, flomo |-> 1]
  /\ notice = ""
  /\ sent = <<>>
  /\ timers = LoadedTimers(settings)
  /\ now = 3

NextConflict ==
  \/ SyncFromServer
  \/ SyncToServer
  \/ CancelSync
  \/ PassStep(1)

SpecConflict == InitConflict /\ [][NextConflict]_vars

\* ------------------------------------------------- a persisted path cache
\* a note file of an earlier pull of the note with the given id
PulledNote(name, id) ==
  [dir |-> SyncFolder, name |-> name, hasFm |-> TRUE,
   fm |-> [NoFm EXCEPT !.remote_id = id, !.title = "t", !.last_synced = 1,
                       !.sync_status = "synced"],
   body |-> "x", mtime |-> 1]

\* the paths a persisted cache entry may hold: a file that still exists, a
\* file that was renamed or now carries another id, a file that was deleted
CachePaths ==
  { [dir |-> SyncFolder, name |-> n] : n \in {"t.md", "u.md", "gone.md"} }

PersistedCaches ==
  UNION { [D -> CachePaths] : D \in SUBSET { n.id : n \in RemoteNotes } }

\* the sync folder after earlier pulls and the user's renames and edits
PulledVaults ==
  { v \in SeqsUpTo({ PulledNote(n, id) : n \in {"t.md", "u.md"},
                                         id \in { m.id : m \in RemoteNotes } }, 2) :
      \A i, j \in 1..Len(v) : v[i].name = v[j].name => i = j }

\* the plugin loaded with any persisted cache over any such folder
InitCache ==
  /\ \E cache \in PersistedCaches :
       settings = [syncService |-> "luojilab",
                   bearerToken |-> "tok", flomoApiToken |-> "tok",
                   noteFetchLimit |-> DefaultFetchLimit,
                   conflictResolution |-> "ask",
                   retryAttempts |-> DefaultRetryAttempts,
                   autoSync |-> FALSE,
                   lastSyncId |-> "", lastSyncTime |-> 0,
                   idToPathCache |-> cache]
  /\ faults = 0
  /\ data = settings
  /\ services = <<NewService(settings.syncService, settings)>>
  /\ passes = <<>>
  /\ vault \in PulledVaults
  /\ remote = [luojilab |-> 0, flomo |-> 0]
  /\ notice = ""
  /\ sent = <<>>
  /\ timers = LoadedTimers(settings)
  /\ now = 2

NextCache ==
  \/ passes = <<>> /\ SyncFromServer
  \/ \E k \in 1..MaxPasses, ok \in BOOLEAN : PullFolder(k, ok)
  \/ \E k \in 1..MaxPasses, resp \in Responses(MaxBatch) : LPullFetch(k, resp)
  \/ \E k \in 1..MaxPasses, ok \in BOOLEAN : LPullSave(k, ok)
  \/ \E k \in 1..MaxPasses, writeOk \in BOOLEAN : LPullItem(k, writeOk)

SpecCache == InitCache /\ [][NextCache]_vars

\* --------------------------------------------------------- taken file names
\* a note of the user's in the sync folder
NamedNote(name) == [UserNote(SyncFolder) EXCEPT !.name = name]

\* the names the user's notes hold: the title of the remote notes, the title
\* with an id, and that with the time of the first pass
TakenNames == <<"t.md", "t-a.md", "t-a-2.md">>

RECURSIVE NotesNamed(_, _)
NotesNamed(names, taken) ==
  IF names = <<>> THEN <<>>
  ELSE (IF Head(names) \in taken THEN <<NamedNote(Head(names))>> ELSE <<>>)
         \o NotesNamed(Tail(names), taken)

InitNames ==
  /\ settings \in InitSettings /\ settings.syncService = "luojilab"
  /\ faults = 0
  /\ data = settings
  /\ services = <<NewService(settings.syncService, settings)>>
  /\ passes = <<>>
  /\ \E taken \in SUBSET { TakenNames[n] : n \in 1..Len(TakenNames) } :
       vault = NotesNamed(TakenNames, taken)
  /\ remote = [luojilab |-> 0, flomo |-> 0]
  /\ notice = ""
  /\ sent = <<>>
  /\ timers = LoadedTimers(settings)
  /\ now = 1

NextNames ==
  \/ SyncFromServer
  \/ \E k \in 1..MaxPasses, ok \in BOOLEAN : PullFolder(k, ok)
  \/ \E k \in 1..MaxPasses, resp \in Responses(MaxBatch) : LPullFetch(k, resp)
  \/ \E k \in 1..MaxPasses, ok \in BOOLEAN : LPullSave(k, ok)
  \/ \E k \in 1..MaxPasses, writeOk \in BOOLEAN : LPullItem(k, writeOk)

SpecNames == InitNames /\ [][NextNames]_vars

\* ------------------------------------------------- front matter round trip
\* titles without nested objects or special characters
PlainTitles == {"t", "note", "123", "true"}
PlainFrontMatters == { [NoFm EXCEPT !.title = title] : title \in PlainTitles }
Bodies == {"", "x"}

\* the text a service writes for a front matter and a body
Encode(kind, frontMatter, body) ==
  IF kind = "luojilab" THEN serializeToMarkdown(frontMatter, body)
  ELSE FlomoFormatNoteContent(frontMatter, body)

\* the front matter a service reads from a file
Decode(kind, file) ==
  IF kind = "luojilab" THEN parseFrontMatter(file) ELSE FlomoParseFrontMatter(file)

\* a service writes a note with the front matter and the body into its
\* folder (vault.create of the text of the codec)
WriteNote(kind, frontMatter, body) ==
  /\ Len(vault) < MaxNotes
  /\ vault' = Append(vault,
                MkFile(IF kind = "luojilab" THEN SyncFolder ELSE FlomoSyncDirectory,
                       "n" \o ToString(Len(vault)) \o ".md",
                       Encode(kind, frontMatter, body)))
  /\ UNCHANGED <<settings, services, passes, data, remote, now, notice, sent,
                 timers, faults>>

InitCodec ==
  /\ settings \in InitSettings
  /\ faults = 0
  /\ data = settings
  /\ services = <<NewService(settings.syncService, settings)>>
  /\ passes = <<>>
  /\ vault = <<>>
  /\ remote = [luojilab |-> 0, flomo |-> 0]
  /\ notice = ""
  /\ sent = <<>>
  /\ timers = LoadedTimers(settings)
  /\ now = 1

NextCodec ==
  \E kind \in {"luojilab", "flomo"}, frontMatter \in PlainFrontMatters,
     body \in Bodies : WriteNote(kind, frontMatter, body)

SpecCodec == InitCodec /\ [][NextCodec]_vars

\* ------------------------------------------------------- clearing the errors
\* getSyncStatus of a service: { ...this.syncStatus }, a new object with the
\* fields of the service's status
getSyncStatus(w, s) == w.services[s].syncStatus

\* SyncManager.clearErrors: the errors field of the object getSyncStatus
\* returned is assigned [], and the object is dropped; the status of the
\* service is not written
clearErrors(w) ==
  LET status == [getSyncStatus(w, cur) EXCEPT !.errors = <<>>]
  IN  w

\* the Clear Errors button, rendered while the status lists errors
ClearErrors ==
  /\ getSyncStatus(World, cur).errors # <<>>
  /\ CommitWorld(clearErrors(World))
  /\ UNCHANGED <<now, faults>>

NextErrors ==
  \/ SyncFromServer
  \/ SyncToServer
  \/ CancelSync
  \/ ClearErrors
  \/ PassStep(1)

SpecErrors == Init /\ [][NextErrors]_vars

\* ------------------------------------------------------ the Sync Notes cycle
\* LuojiLab after a first Sync Notes cycle: note a was pulled into t.md and
\* the cursor stored, the push then sent t.md and the user's u.md to the
\* server
InitCycle ==
  /\ settings = [syncService |-> "luojilab",
                 bearerToken |-> "tok", flomoApiToken |-> "tok",
                 noteFetchLimit |-> DefaultFetchLimit,
                 conflictResolution |-> "ask",
                 retryAttempts |-> DefaultRetryAttempts,
                 autoSync |-> FALSE,
                 lastSyncId |-> "a", lastSyncTime |-> 1,
                 idToPathCache |-> <<>>]
  /\ faults = 0
  /\ data = settings
  /\ services = <<NewService(settings.syncService, settings)>>
  /\ passes = <<>>
  /\ vault \in { <<UserNote(SyncFolder), PulledNote("t.md", "a")>>,
                  <<PulledNote("t.md", "a")>> }
  /\ remote = [luojilab |-> 1 + Len(vault), flomo |-> 0]
  /\ notice = ""
  /\ sent = <<>>
  /\ timers = LoadedTimers(settings)
  /\ now = 2

\* the Sync Notes command: await syncFromServer(), then await syncToServer()
NextCycle ==
  \/ passes = <<>> /\ SyncFromServer
  \/ Len(passes) = 1 /\ passes[1].pc = "done" /\ SyncToServer
  \/ \E k \in 1..MaxPasses, ok \in BOOLEAN : PullFolder(k, ok)
  \/ \E k \in 1..MaxPasses, resp \in Responses(MaxBatch) : LPullFetch(k, resp)
  \/ \E k \in 1..MaxPasses, ok \in BOOLEAN : LPullSave(k, ok)
  \/ \E k \in 1..MaxPasses, writeOk \in BOOLEAN : LPullItem(k, writeOk)
  \/ \E k \in 1..MaxPasses, res \in {"ok", "throw"} : PushItem(k, res)

SpecCycle == InitCycle /\ [][NextCycle]_vars

\* ------------------------------------------- the cache record, step by step
\* createOrUpdateLocalNote of the note pass k is at creates a file
Creates(k) ==
  /\ k \in 1..Len(passes)
  /\ passes[k].pc = "item" /\ passes[k].kind = "luojilab" /\ passes[k].dir = "pull"
  /\ LET p == passes[k]
     IN  Len(createOrUpdateLocalNote(World, p.notes[p.i + 1], TRUE).w.vault) > Len(vault)

\* createOrUpdateLocalNote lines 625-661 for a new note: the file is
\* created and the loadData of the cache record answers the stored blob
LPullItemLoad(k) ==
  /\ Creates(k)
  /\ LET p == passes[k]
         note == p.notes[p.i + 1]
         f == findExistingNoteByRemoteId(World, note.id)
         r == createOrUpdateLocalNote(World, note, TRUE)
     IN  Commit([w |-> [r.w EXCEPT !.data = f.w.data],
                 p |-> [p EXCEPT !.pc = "cache",
                                 !.cachedData = f.w.data,
                                 !.filePath = r.w.vault[Len(r.w.vault)].name]], k)
  /\ UNCHANGED <<now, faults>>

\* lines 661-667: cachedData.idToPathCache[remoteMemo.id] = filePath and
\* the saveData(cachedData) returns (a failure is logged); then the item
\* loop goes on (lines 160-162)
LPullCacheSave(k, ok) ==
  /\ k \in 1..Len(passes)
  /\ passes[k].pc = "cache"
  /\ LET p == passes[k]
         note == p.notes[p.i + 1]
         cachedData == [p.cachedData EXCEPT !.idToPathCache =
                          (note.id :> [dir |-> SyncFolder, name |-> p.filePath]) @@ @]
         w == IF ok THEN [World EXCEPT !.data = cachedData] ELSE World
         p1 == [p EXCEPT !.handled = Append(@, p.i), !.i = @ + 1,
                         !.successCount = @ + 1,
                         !.cachedData = [idToPathCache |-> <<>>], !.filePath = ""]
     IN  Commit(LPullLoop(w, p1), k)
  /\ UNCHANGED now /\ Io(ok)

\* the Conflict Resolution dropdown of the settings tab:
\* settings.conflictResolution = value, then saveSettings
SetConflictResolution(value, ok) ==
  /\ value # settings.conflictResolution
  /\ CommitWorld(saveSettings([World EXCEPT !.settings.conflictResolution = value], ok))
  /\ UNCHANGED now /\ Io(ok)

InitRace == Init /\ settings.syncService = "luojilab"

\* pulls of LuojiLab, the cache record of a new note in its two steps, and
\* the settings tab
NextRace ==
  \/ SyncFromServer
  \/ \E value \in {"ask", "local", "remote"}, ok \in BOOLEAN :
       SetConflictResolution(value, ok)
  \/ \E k \in 1..MaxPasses, ok \in BOOLEAN : PullFolder(k, ok)
  \/ \E k \in 1..MaxPasses, resp \in Responses(MaxBatch) : LPullFetch(k, resp)
  \/ \E k \in 1..MaxPasses, ok \in BOOLEAN : LPullSave(k, ok)
  \/ \E k \in 1..MaxPasses, writeOk \in BOOLEAN :
       (~writeOk \/ ~Creates(k)) /\ LPullItem(k, writeOk)
  \/ \E k \in 1..MaxPasses : LPullItemLoad(k)
  \/ \E k \in 1..MaxPasses, ok \in BOOLEAN : LPullCacheSave(k, ok)

SpecRace == InitRace /\ [][NextRace]_vars

\* ------------------------------------------------------------- properties
PassIds == 1..Len(passes)
RunningOn(s) == { k \in PassIds : Running(passes[k]) /\ passes[k].svc = s }
\* pass k returns in this step
Ends(k) == passes[k].pc # "done" /\ passes'[k].pc = "done"
\* the file the push pass k is working on
PushedFile(k) == vault[passes[k].files[passes[k].i + 1]]
HasRemoteId(kind, file) ==
  /\ file.hasFm
  /\ IF kind = "luojilab" THEN parseFrontMatter(file).remote_id # ""
     ELSE FlomoParseFrontMatter(file).memo_id # ""
Errors(svcs, s) == svcs[s].syncStatus.errors

\* C1: within one service instance at most one pass is active at any time
\* (isSyncing is set exactly while that pass runs), and a syncFromServer /
\* syncToServer invoked on the instance while its pass is active shows
\* 'Sync already in progress' and changes nothing else: no pass is started,
\* the sync status, the settings, the vault and the remote stay as they are.
C1_OnePassPerInstance ==
  /\ [](\A s \in 1..Len(services) :
          /\ Cardinality(RunningOn(s)) <= 1
          /\ services[s].isSyncing <=> RunningOn(s) # {})
  /\ [][(SyncFromServer \/ SyncToServer) /\ services[cur].isSyncing
          => /\ notice' = "Sync already in progress"
             /\ UNCHANGED <<services, passes, settings, data, vault, remote>>]_vars

\* an invocation has just been rejected while the pass of the instance runs
C1_Witness ==
  /\ notice = "Sync already in progress"
  /\ RunningOn(cur) # {}

\* C2: the one-sync-at-a-time rule across a service switch: at most one pass
\* is active at any time, whichever instances the passes belong to.
C2_OnePassAcrossSwitch ==
  Cardinality({ k \in PassIds : Running(passes[k]) }) <= 1

\* C3: in a pull pass the step that handles one fetched item never ends the
\* pass through the catch block of syncFromServer, for either service.
C3_ItemFailureDoesNotAbort ==
  [][\A k \in PassIds :
       passes[k].dir = "pull" /\ passes[k].pc = "item"
         => passes'[k].exit # "catch"]_vars

\* C4: a pull pass of LuojiLab (the service whose pull reports counts) that
\* reached its completion summary without a cancellation has
\* successCount + skipCount + errorCount = notes.length.
C4_CountsAddUp ==
  \A k \in PassIds :
    passes[k].kind = "luojilab" /\ passes[k].dir = "pull"
    /\ passes[k].exit = "end" /\ ~passes[k].cancelled
      => passes[k].successCount + passes[k].skipCount + passes[k].errorCount
           = passes[k].total

\* a completed pull of two notes: one skipped as a duplicate, one failed
C4_Witness ==
  \E k \in PassIds :
    /\ passes[k].kind = "luojilab" /\ passes[k].dir = "pull"
    /\ passes[k].exit = "end" /\ ~passes[k].cancelled
    /\ passes[k].total = 2 /\ passes[k].skipCount = 1 /\ passes[k].errorCount = 1

\* C5: the first request of a full sync starts from the beginning (no
\* since_id, no updated_after, no latest_slug cursor) and carries no
\* configured fetch limit, for either service.
C5_FullSyncFromTheBeginning ==
  \A k \in PassIds :
    passes[k].isFullSync /\ Len(passes[k].reqs) >= 1
      => LET r == passes[k].reqs[1] IN
         /\ r.since_id = "" /\ r.updated_after = 0 /\ r.latest_slug = ""
         /\ r.limit \notin {DefaultFetchLimit, FlomoFetchLimit}

\* C6: a pull pass (a full sync included) that fails as a whole while the
\* folder is ensured or the notes are fetched leaves settings.lastSyncId and
\* settings.lastSyncTime at the values they had before the pass.
C6_FailedPullKeepsSyncState ==
  [][\A k \in PassIds :
       passes[k].dir = "pull" /\ passes[k].pc \in {"folder", "fetch"}
       /\ passes'[k].exit = "catch"
         => /\ settings'.lastSyncId = passes[k].pre.lastSyncId
            /\ settings'.lastSyncTime = passes[k].pre.lastSyncTime]_vars

\* C7: once cancelSync has been requested while a pass is in its item loop,
\* the step that finishes the current item begins no further item and
\* writes at most one file, never one this pass has written before (those
\* carry the time of the pass); a step taken while no pass is at an item
\* leaves the vault as it is; and no step removes or changes an entry of an
\* error list.
C7_CancelStopsTheLoop ==
  [][/\ \A k \in PassIds :
          passes[k].pc = "item" /\ services[passes[k].svc].cancelRequested
          /\ passes'[k] # passes[k]
            => /\ passes'[k].pc # "item"
               /\ passes'[k].i <= passes[k].i + 1
               /\ Len(vault') <= Len(vault) + 1
               /\ Cardinality({ j \in 1..Len(vault) : vault'[j] # vault[j] })
                    + (Len(vault') - Len(vault)) <= 1
               /\ \A j \in 1..Len(vault) :
                    vault'[j] # vault[j] => vault[j].mtime < now
     /\ (\A k \in PassIds : passes[k].pc # "item") => vault' = vault
     /\ \A s \in 1..Len(services) :
          /\ Len(Errors(services', s)) >= Len(Errors(services, s))
          /\ SubSeq(Errors(services', s), 1, Len(Errors(services, s)))
               = Errors(services, s)]_vars

\* a pass was cancelled in its loop after its first item and has returned
\* with items left
C7_Witness ==
  \E k \in PassIds :
    /\ passes[k].pc = "done" /\ passes[k].cancelled
    /\ passes[k].i >= 1 /\ passes[k].i < passes[k].total
    /\ services[passes[k].svc].cancelRequested

\* C8: when a pass that was cancelled in its item loop returns, the status
\* is not that of a completed pass: progress.completed is below
\* progress.total, no completion summary is shown or written, and
\* settings.lastSyncTime is the one from before the pass.
C8_CancelledIsNotCompleted ==
  [][\A k \in PassIds :
       Ends(k) /\ passes'[k].cancelled
         => LET status == services'[passes[k].svc].syncStatus IN
            /\ status.progress.completed < status.progress.total
            /\ status.progress.currentFile # "Completed"
            /\ notice' \notin {"Sync completed", "Sync from Flomo completed",
                               "Sync to Flomo completed", "Sync to server completed"}
            /\ settings'.lastSyncTime = passes[k].pre.lastSyncTime]_vars

\* C9: the push of a file whose front matter carries a remote id leaves the
\* number of remote notes unchanged.
C9_UpdateCreatesNoRemoteNote ==
  [][\A k \in PassIds :
       passes[k].dir = "push" /\ passes[k].pc = "item"
       /\ passes'[k] # passes[k]
       /\ HasRemoteId(passes[k].kind, PushedFile(k))
         => remote' = remote]_vars

\* C10: when the push of a file without a remote id has created a remote
\* note, the file carries a remote id in its front matter afterwards.
C10_CreatedFileCarriesRemoteId ==
  [][\A k \in PassIds :
       passes[k].dir = "push" /\ passes[k].pc = "item"
       /\ ~HasRemoteId(passes[k].kind, PushedFile(k))
       /\ remote' # remote
         => HasRemoteId(passes[k].kind,
                        vault'[passes[k].files[passes[k].i + 1]])]_vars

\* the remote id of a fetched item
ItemId(kind, note) == IF kind = "luojilab" THEN note.id ELSE note.memo_id

\* C11: whenever a pull pass awaits the local create-or-update of a fetched
\* item, no earlier item of the batch carries the same remote id (a later
\* occurrence of an id never reaches the create-or-update), for either
\* service.
C11_DuplicateIdHandledOnce ==
  \A k \in PassIds :
    passes[k].dir = "pull" /\ passes[k].pc = "item"
      => \A j \in 1..passes[k].i :
           ItemId(passes[k].kind, passes[k].notes[j])
             # ItemId(passes[k].kind, passes[k].notes[passes[k].i + 1])

\* what an error entry may name a fetched item by
ItemLabels(kind, note) ==
  IF kind = "luojilab" THEN {note.title, note.id} ELSE {note.slug, note.memo_id}

\* C12: the step of a pull pass in which the local write of the current item
\* fails adds exactly one entry to the error list of the service, and the
\* entry names the item by its title or its remote id.
C12_WriteFailureOneEntry ==
  [][\A k \in PassIds :
       passes[k].dir = "pull" /\ passes[k].pc = "item"
       /\ passes'[k] # passes[k] /\ faults' = faults + 1
         => LET before == Errors(services, passes[k].svc)
                after == Errors(services', passes[k].svc)
            IN  /\ Len(after) = Len(before) + 1
                /\ after[Len(after)].file
                     \in ItemLabels(passes[k].kind,
                                    passes[k].notes[passes[k].i + 1])]_vars

\* C13: the step of a push pass in which the read or the request of the
\* current file fails does not end the pass through the catch block of
\* syncToServer: it appends one error entry naming that file and moves on to
\* the next file.
C13_PushFailureContinues ==
  [][\A k \in PassIds :
       passes[k].dir = "push" /\ passes[k].pc = "item"
       /\ passes'[k] # passes[k] /\ faults' = faults + 1
         => LET before == Errors(services, passes[k].svc)
                after == Errors(services', passes[k].svc)
            IN  /\ passes'[k].exit # "catch"
                /\ passes'[k].i = passes[k].i + 1
                /\ Len(after) = Len(before) + 1
                /\ after[Len(after)].file = PushedFile(k).name
                /\ after[Len(after)].timestamp = now]_vars

\* the item the pull pass k is working on, the local file the service finds
\* for it (0 for none) and whether the service detects a conflict with it
PulledItem(k) == passes[k].notes[passes[k].i + 1]
ExistingFile(k) ==
  IF passes[k].kind = "luojilab"
  THEN findExistingNoteByRemoteId(World, PulledItem(k).id).file
  ELSE findExistingMemoFile(vault, PulledItem(k).memo_id)
Conflicts(k) ==
  LET j == ExistingFile(k) IN
  /\ j # 0
  /\ IF passes[k].kind = "luojilab" THEN hasConflict(PulledItem(k), vault[j])
     ELSE FlomoHasConflict(FlomoParseFrontMatter(vault[j]), PulledItem(k), vault[j])
\* the pull pass k completes the write of its current item in this step
WritesItem(k) ==
  /\ passes[k].dir = "pull" /\ passes[k].pc = "item"
  /\ passes'[k] # passes[k] /\ faults' = faults

\* C14: when the conflict policy is 'local' and the pulled item conflicts
\* with its existing local file, the write of the item leaves the body of
\* that file as it was, for either service.
C14_LocalPolicyKeepsBody ==
  [][\A k \in PassIds :
       WritesItem(k) /\ Conflicts(k) /\ settings.conflictResolution = "local"
         => vault'[ExistingFile(k)].body = vault[ExistingFile(k)].body]_vars

\* C15: when the conflict policy is 'ask' and the pulled item conflicts with
\* its existing local file, the write of the item marks the file (its body
\* is neither the local nor the remote text, its sync_status is conflict)
\* and appends exactly one error entry, naming that file, for either
\* service.
C15_AskPolicyMarksAndReports ==
  [][\A k \in PassIds :
       WritesItem(k) /\ Conflicts(k) /\ settings.conflictResolution = "ask"
         => LET j == ExistingFile(k)
                before == Errors(services, passes[k].svc)
                after == Errors(services', passes[k].svc)
            IN  /\ vault'[j].body \notin {vault[j].body, PulledItem(k).content}
                /\ vault'[j].fm.sync_status \in {"conflict", "'conflict'"}
                /\ Len(after) = Len(before) + 1
                /\ after[Len(after)].file = vault[j].name]_vars

\* C16: every pass that is active ends, whether or not the servers answer:
\* from any state with an active pass a state is reached in which no
\* instance is syncing and no status reports inProgress.
C16_EveryPassEnds ==
  (\E k \in PassIds : Running(passes[k]))
    ~> (\A s \in 1..Len(services) :
          ~services[s].isSyncing /\ ~services[s].syncStatus.inProgress)

\* a tick of either auto-sync timer taken while some pass has not returned
TickWhileActive ==
  /\ AutoSyncTick \/ PluginAutoSyncTick
  /\ \E k \in PassIds : Running(passes[k])

\* C17: a tick of an auto-sync timer that fires while a pass is active
\* starts no pass, issues no request and leaves nothing behind: the passes,
\* the service instances, the settings, the vault and the servers are what
\* they were before the tick.
C17_TickWhileActiveIsNoOp ==
  [][TickWhileActive =>
       /\ passes' = passes
       /\ services' = services
       /\ settings' = settings /\ data' = data
       /\ vault' = vault /\ remote' = remote]_vars

\* C18: a LuojiLab pull pass that leaves its fetch with at least one note
\* and goes on sets lastSyncId to the id of the first fetched note and
\* awaits saveSettings with no item processed; the item loop is entered
\* from that await only.
C18_CursorSavedBeforeItems ==
  [][\A k \in PassIds :
       passes[k].kind = "luojilab" /\ passes[k].dir = "pull"
         => /\ (passes[k].pc = "fetch" /\ passes'[k].pc # "fetch"
                 /\ Running(passes'[k]) /\ Len(passes'[k].notes) >= 1)
               => /\ settings'.lastSyncId = passes'[k].notes[1].id
                  /\ passes'[k].pc = "save"
                  /\ passes'[k].i = 0 /\ vault' = vault
            /\ (passes[k].pc # "item" /\ passes'[k].pc = "item")
               => passes[k].pc = "save" /\ passes'[k].i = 0]_vars

\* a pull pass awaiting the save of the cursor it has just changed, with two
\* fetched notes and none processed
C18_Witness ==
  \E k \in PassIds :
    /\ passes[k].kind = "luojilab" /\ passes[k].dir = "pull"
    /\ passes[k].pc = "save" /\ passes[k].i = 0
    /\ Len(passes[k].notes) = 2
    /\ settings.lastSyncId = passes[k].notes[1].id
    /\ passes[k].pre.lastSyncId # passes[k].notes[1].id

\* the step in which pull pass k of LuojiLab, not a full sync, builds and
\* issues its first request
IssuesFirstRequest(k) ==
  /\ passes[k].kind = "luojilab" /\ passes[k].dir = "pull"
  /\ ~passes[k].isFullSync
  /\ passes[k].pc = "folder" /\ passes'[k].pc = "fetch"

\* C19: a pull that is not a full sync and finds a non-empty lastSyncId
\* issues a request with since_id = lastSyncId and without a limit, whatever
\* lastSyncTime, isAutoSync and noteFetchLimit are.
C19_ByIdRequestHasNoLimit ==
  [][\A k \in PassIds :
       IssuesFirstRequest(k) /\ settings.lastSyncId # ""
         => /\ passes'[k].reqs[1].since_id = settings.lastSyncId
            /\ passes'[k].reqs[1].limit = 0]_vars

\* C20: the first request of a pull that is not a full sync follows this
\* priority: with a non-empty lastSyncId it carries since_id and no
\* updated_after; else with lastSyncTime > 0 it carries updated_after; else
\* with noteFetchLimit > 0 it carries that limit; else the pass fetches all
\* pages. The paged modes issue that one request only.
C20_ModePriority ==
  [][\A k \in PassIds :
       IssuesFirstRequest(k)
         => LET st == settings
                r == passes'[k].reqs[1]
                m == passes'[k].mode
            IN  /\ Len(passes'[k].reqs) = 1
                /\ IF st.lastSyncId # ""
                   THEN m = "page" /\ r.since_id = st.lastSyncId /\ r.updated_after = 0
                   ELSE IF st.lastSyncTime > 0
                   THEN m = "page" /\ r.since_id = "" /\ r.updated_after = st.lastSyncTime
                   ELSE IF st.noteFetchLimit > 0
                   THEN /\ m = "page" /\ r.since_id = "" /\ r.updated_after = 0
                        /\ r.limit = st.noteFetchLimit
                   ELSE m = "all" /\ r.since_id = "" /\ r.updated_after = 0]_vars

\* a pull awaiting the answer to a by-id request issued while a time of the
\* last sync was stored as well
C20_Witness ==
  \E k \in PassIds :
    /\ passes[k].kind = "luojilab" /\ passes[k].dir = "pull" /\ ~passes[k].isFullSync
    /\ passes[k].pc = "fetch" /\ passes[k].mode = "page"
    /\ settings.lastSyncId # "" /\ settings.lastSyncTime > 0
    /\ passes[k].reqs[1].since_id = settings.lastSyncId
    /\ passes[k].reqs[1].updated_after = 0

\* pass k is inside fetchAllNotes, a page request awaiting its answer
InFetchAll(k) ==
  /\ passes[k].kind = "luojilab" /\ passes[k].dir = "pull"
  /\ passes[k].mode = "all" /\ passes[k].pc = "fetch"

Backoff == <<1000, 2000, 4000>>

\* C22: fetchMemos issues at most 4 requests per invocation and waits
\* 1000, 2000, 4000 ms before the second, third and fourth; a request is
\* re-issued only after an answer with HTTP status 5xx or 429 or, with
\* status 200, API code 1001 or 1002; any other failure ends the operation.
C22_RetryOnlyTransient ==
  [][\A k \in PassIds :
       passes[k].kind = "flomo" /\ passes[k].dir = "pull" /\ passes[k].pc = "fetch"
       /\ passes'[k] # passes[k]
         => /\ passes'[k].pc = "fetch"
               => /\ Len(passes'[k].reqs) = Len(passes[k].reqs) + 1
                  /\ Len(passes'[k].reqs) <= 4
                  /\ Len(passes'[k].waits) = Len(passes'[k].reqs) - 1
                  /\ \A j \in 1..Len(passes'[k].waits) : passes'[k].waits[j] = Backoff[j]
            /\ \A status \in FlomoStatuses, code \in FlomoCodes,
                  list \in SeqsUpTo(RemoteMemos, 1) :
                 FPullFetchStatus(k, status, code, list)
                   => IF status \in {500, 503, 429}
                         \/ (status = 200 /\ code \in {1001, 1002})
                      THEN passes'[k].pc = "fetch" \/ Len(passes[k].reqs) = 4
                      ELSE passes'[k].pc # "fetch"]_vars

\* a pull awaiting the answer to its fourth request after three waits
C22_Witness ==
  \E k \in PassIds :
    /\ passes[k].kind = "flomo" /\ passes[k].dir = "pull" /\ passes[k].pc = "fetch"
    /\ Len(passes[k].reqs) = 4
    /\ passes[k].waits = Backoff

\* the fetch of pull pass k gives up in this step: the pass ends in its
\* catch block
FetchGivesUp(k) ==
  /\ passes[k].dir = "pull" /\ passes[k].pc = "fetch"
  /\ passes'[k].pc = "done" /\ passes'[k].exit = "catch"

\* C23: a fetch that gives up after failed requests (an error status of the
\* LuojiLab server, a 5xx or 429 of the Flomo server) has been retried
\* settings.retryAttempts times: it has issued retryAttempts + 1 requests.
C23_RetriesAsConfigured ==
  [][\A k \in PassIds :
       /\ FetchGivesUp(k)
       /\ \/ \E resp \in Responses(1) : ~resp.ok /\ LPullFetch(k, resp)
          \/ \E status \in {429, 500, 503} : FPullFetchStatus(k, status, 0, <<>>)
       => Len(passes[k].reqs) = settings.retryAttempts + 1]_vars

\* C24: every request sent to the Flomo server carries the sign of exactly
\* the parameters it carries: the hash of their key=value pairs in the order
\* of the keys, followed by the shared secret.
C24_SignMatchesParameters ==
  \A n \in 1..Len(sent) :
    sent[n].sign = Md5(<<ParamStr(sent[n].params), salt>>)

\* the persisted cache maps remote id r to a file of the vault that carries r
CachedFor(r) ==
  /\ r \in DOMAIN data.idToPathCache
  /\ \E j \in 1..Len(vault) :
       /\ vault[j].dir = data.idToPathCache[r].dir
       /\ vault[j].name = data.idToPathCache[r].name
       /\ vault[j].hasFm /\ parseFrontMatter(vault[j]).remote_id = r

\* C25: an entry of the persisted id-to-path cache that maps a remote id to
\* the file created for it stays as it is: no step, a save of the settings
\* included, removes it or maps the id elsewhere.
C25_CacheEntryKept ==
  [][\A r \in {n.id : n \in RemoteNotes} :
       CachedFor(r)
         => /\ r \in DOMAIN data'.idToPathCache
            /\ data'.idToPathCache[r] = data.idToPathCache[r]]_vars

\* the file findExistingNoteByRemoteId answers for r, 0 for null
FoundFor(r) == findExistingNoteByRemoteId(World, r).file
\* the file the persisted cache names for r, 0 when there is no entry or no
\* such file
CachedFileFor(r) ==
  IF r \in DOMAIN data.idToPathCache
  THEN getAbstractFileByPath(vault, data.idToPathCache[r].dir,
                             data.idToPathCache[r].name)
  ELSE 0

\* C26: findExistingNoteByRemoteId(r) never returns a file whose front
\* matter remote_id differs from r, whatever the persisted cache contains
\* (entries naming deleted, renamed or re-assigned files included)
C26_FoundFileCarriesId ==
  \A r \in { n.id : n \in RemoteNotes } :
    FoundFor(r) # 0
      => /\ vault[FoundFor(r)].hasFm
         /\ parseFrontMatter(vault[FoundFor(r)]).remote_id = r

\* a pass has written a note, the cache names for r a file that carries
\* another id, and the lookup answers another file
C26_Witness ==
  /\ passes # <<>> /\ passes[1].pc = "done"
  /\ \E j \in 1..Len(vault) : vault[j].mtime > 1
  /\ \E r \in { n.id : n \in RemoteNotes } :
       /\ CachedFileFor(r) # 0
       /\ parseFrontMatter(vault[CachedFileFor(r)]).remote_id # r
       /\ FoundFor(r) # 0
       /\ FoundFor(r) # CachedFileFor(r)

\* the remote id a file carries, "" for none
IdOf(file) == IF file.hasFm THEN parseFrontMatter(file).remote_id ELSE ""
Taken(name) == getAbstractFileByPath(vault, SyncFolder, name) # 0
\* the name createOrUpdateLocalNote is to give the file of a new note: the
\* title, with the id when that is taken, with the time too when that is taken
NameInOrder(remoteMemo) ==
  IF ~Taken(getFileName(remoteMemo, FALSE)) THEN getFileName(remoteMemo, FALSE)
  ELSE IF ~Taken(getFileName(remoteMemo, TRUE)) THEN getFileName(remoteMemo, TRUE)
  ELSE timestampedName(remoteMemo)

\* C27: a step of a pull keeps every file, rewrites only a file that already
\* carries the id of the note it saves, and gives the file of a new note the
\* first free name of: title, title with id, title with id and time; so no
\* two files share a path and no file passes from one remote id to another
C27_CreateNeverOverwrites ==
  [][/\ Len(vault') >= Len(vault) /\ Len(vault') <= Len(vault) + 1
     /\ \A j \in 1..Len(vault) :
          /\ vault'[j].dir = vault[j].dir /\ vault'[j].name = vault[j].name
          /\ vault'[j] # vault[j]
               => IdOf(vault[j]) # "" /\ IdOf(vault'[j]) = IdOf(vault[j])
     /\ Len(vault') > Len(vault)
          => LET new == vault'[Len(vault')]
             IN  /\ new.dir = SyncFolder
                 /\ ~Taken(new.name)
                 /\ \E n \in RemoteNotes :
                      n.id = IdOf(new) /\ new.name = NameInOrder(n)
                 /\ \A j \in 1..Len(vault) : vault'[j] = vault[j]]_vars

\* both remote notes are stored, in files created with the id and with the
\* time in their names, next to the user's notes that held the earlier names
C27_Witness ==
  /\ \E j \in 1..Len(vault) : IdOf(vault[j]) = "a" /\ vault[j].name = "t-a-2.md"
  /\ \E j \in 1..Len(vault) : IdOf(vault[j]) = "b" /\ vault[j].name = "t-b.md"
  /\ \E j \in 1..Len(vault) : IdOf(vault[j]) = "" /\ vault[j].name = "t.md"

\* C28: for every front matter without nested objects or special characters
\* in its values and every body, the front matter each service reads from
\* the text it wrote for them has the title of the front matter written
C28_TitleRoundTrip ==
  [][\A kind \in {"luojilab", "flomo"}, frontMatter \in PlainFrontMatters,
        body \in Bodies :
       WriteNote(kind, frontMatter, body)
         => Decode(kind, vault'[Len(vault')]).title = frontMatter.title]_vars

\* C29: when SyncManager.clearErrors has returned, getSyncStatus().errors
\* is empty (and it stays empty until a new error is recorded)
C29_ClearErrorsEmpties ==
  [][ClearErrors => getSyncStatus(World, cur).errors' = <<>>]_vars

\* auto sync is switched off in the settings and the settings are saved
AutoSyncDisabled == ~settings.autoSync /\ ~data.autoSync
\* a tick of one of the two timers starts a pass in this step
TickStartsPass ==
  /\ AutoSyncTick \/ PluginAutoSyncTick
  /\ Len(passes') > Len(passes)

\* C30: once auto sync is disabled in the settings and the settings are
\* saved, no timer tick starts a sync pass
C30_NoTickAfterDisable ==
  [][AutoSyncDisabled => ~TickStartsPass]_vars

\* the pull pass k awaits the answer to an incremental request (by id or by
\* time)
AwaitsIncremental(k) ==
  /\ passes[k].kind = "luojilab" /\ passes[k].dir = "pull"
  /\ passes[k].pc = "fetch" /\ passes[k].mode = "page"
  /\ LET r == passes[k].reqs[Len(passes[k].reqs)]
     IN  r.since_id # "" \/ r.updated_after > 0

\* C31: an incremental pull obtains all new notes: when the server answers
\* a page of it with has_more = true, the pass requests a further page (it
\* does not go on to store the cursor and process what it has)
C31_IncrementalFetchesAllPages ==
  [][\A k \in PassIds, resp \in Responses(1) :
       /\ AwaitsIncremental(k)
       /\ resp.ok /\ resp.has_more /\ resp.list # <<>>
       /\ ~services[passes[k].svc].cancelRequested
       /\ LPullFetch(k, resp)
       => /\ passes'[k].pc = "fetch"
          /\ Len(passes'[k].reqs) = Len(passes[k].reqs) + 1]_vars

\* the files of the Flomo directory that a pull wrote for the memo: their
\* front matter holds the memo_id as formatNoteContent prints it
WrittenFor(memoId) ==
  { j \in FilesIn(vault, FlomoSyncDirectory) :
      vault[j].hasFm /\ vault[j].fm.memo_id = Stringify(memoId) }

\* C32: pulling a Flomo memo whose memo_id an earlier pull wrote to a local
\* file finds that file and updates it: the save does not fail, no file is
\* added, and a file written for the memo is rewritten
C32_PulledMemoIsUpdated ==
  [][\A k \in PassIds :
       /\ passes[k].kind = "flomo" /\ passes[k].dir = "pull" /\ passes[k].pc = "item"
       /\ WrittenFor(passes[k].notes[passes[k].i + 1].memo_id) # {}
       /\ FPullItem(k, TRUE)
       => /\ Len(vault') = Len(vault)
          /\ Errors(services', passes[k].svc) = Errors(services, passes[k].svc)
          /\ \E j \in WrittenFor(passes[k].notes[passes[k].i + 1].memo_id) :
               vault'[j].mtime = now]_vars

\* C33: when fullSyncFromServer returns, noteFetchLimit equals its value
\* before the call, whether the pass fetched notes, fetched none or failed
C33_FetchLimitRestored ==
  [][\A k \in PassIds :
       passes[k].isFullSync /\ Ends(k)
         => settings'.noteFetchLimit = passes[k].pre.noteFetchLimit]_vars

\* C34: a Sync Notes cycle after the first one, with no edits of the user's
\* and nothing new on the server, is a fixed point: its pull, answered no
\* notes, adds no file, and its push adds no note to the server
C34_SecondCycleFixedPoint ==
  [][/\ Len(passes) = 2 /\ passes[1].exit = "return_empty"
     /\ \E res \in {"ok", "throw"} : PushItem(2, res)
     => /\ remote' = remote
        /\ Len(vault') = Len(vault)]_vars

\* C35: whenever no pass is executing on a service instance, its isSyncing
\* and its syncStatus.inProgress are both false, however its passes ended
\* (completion, cancellation, early return or error)
C35_IdleMeansNotSyncing ==
  \A s \in 1..Len(services) :
    RunningOn(s) = {}
      => ~services[s].isSyncing /\ ~services[s].syncStatus.inProgress

\* a pass that ended in the catch block, and a later invocation on the same
\* instance that was accepted and is running
C35_Witness ==
  /\ Len(passes) = 2
  /\ passes[1].exit = "catch" /\ passes[1].pc = "done"
  /\ passes[2].svc = passes[1].svc /\ Running(passes[2])
  /\ services[passes[2].svc].isSyncing

\* pass k, a LuojiLab pull, takes a step of its item loop: the saveSettings
\* of the cursor returns (then the loop starts) or the save of one note
\* returns
ItemLoopStep(k) ==
  \/ \E ok \in BOOLEAN : LPullSave(k, ok)
  \/ \E writeOk \in BOOLEAN : LPullItem(k, writeOk)

\* C36: once a pull has stored the id of the first fetched note as
\* lastSyncId, no step of its item loop moves the cursor back, whether an
\* item errors or the loop is left by cancellation: lastSyncId is still that
\* id after the step, and when the pass ends after its loop the stored
\* settings hold it too (it is the since_id of the next incremental pull)
C36_CursorNotMovedBack ==
  [][\A k \in PassIds :
       /\ passes[k].kind = "luojilab" /\ passes[k].dir = "pull"
       /\ passes[k].pc \in {"save", "item"}
       /\ settings.lastSyncId = passes[k].notes[1].id
       /\ ItemLoopStep(k)
       => /\ settings'.lastSyncId = passes[k].notes[1].id
          /\ passes'[k].exit = "end" => data'.lastSyncId = passes[k].notes[1].id]_vars

\* a pull has ended after an item of it failed, and the cursor in memory and
\* in the stored settings is a note's id
C36_Witness ==
  \E k \in PassIds :
    /\ passes[k].kind = "luojilab" /\ passes[k].dir = "pull"
    /\ passes[k].pc = "done" /\ passes[k].exit = "end"
    /\ passes[k].errorCount > 0
    /\ settings.lastSyncId # "" /\ data.lastSyncId = settings.lastSyncId

\* C37: when cancellation was requested while a LuojiLab pull awaits the
\* answer to a request, the answer ends the pass: no further page is
\* requested, no item is processed, no file is written and lastSyncId and
\* lastSyncTime stay as they are, in memory and in the stored settings
C37_CancelWhileFetching ==
  [][\A k \in PassIds, resp \in Responses(MaxBatch) :
       /\ passes[k].kind = "luojilab" /\ passes[k].dir = "pull"
       /\ passes[k].pc = "fetch"
       /\ services[passes[k].svc].cancelRequested
       /\ LPullFetch(k, resp)
       => /\ Ends(k)
          /\ passes'[k].handled = <<>> /\ passes'[k].successCount = 0
          /\ vault' = vault
          /\ settings'.lastSyncId = settings.lastSyncId
          /\ settings'.lastSyncTime = settings.lastSyncTime
          /\ data' = data]_vars

\* a full sync was cancelled while it fetched: it has returned by the
\* cancellation check after the fetch
C37_Witness ==
  \E k \in PassIds :
    /\ passes[k].kind = "luojilab" /\ passes[k].dir = "pull" /\ passes[k].isFullSync
    /\ passes[k].pc = "done" /\ passes[k].exit = "return_cancelled"
    /\ passes[k].total > 0

\* C38: a cancel request never carries over to another pass: cancelSync
\* while the service runs no pass changes nothing, a pass begins with
\* cancelRequested false, and cancelRequested becomes true only by a
\* cancelSync on the current service while its pass is active
C38_CancelDoesNotCarryOver ==
  [][/\ CancelSync /\ ~services[cur].isSyncing
          => UNCHANGED <<settings, services, passes, data, vault, remote>>
     /\ Len(passes') > Len(passes)
          => ~services'[passes'[Len(passes')].svc].cancelRequested
     /\ \A s \in 1..Len(services) :
          ~services[s].cancelRequested /\ services'[s].cancelRequested
            => CancelSync /\ s = cur /\ RunningOn(s) # {}]_vars

\* a pass was cancelled in its item loop, and the next pass on the same
\* instance has run to its end, not cancelled, and has saved a note
C38_Witness ==
  /\ Len(passes) = 2
  /\ passes[1].pc = "done" /\ passes[1].cancelled
  /\ passes[2].svc = passes[1].svc
  /\ passes[2].pc = "done" /\ passes[2].exit = "end" /\ ~passes[2].cancelled
  /\ passes[2].dir = "pull" /\ passes[2].successCount > 0

\* C39: a settings save of the UI that lands between the loadData and the
\* saveData of a cache record is not lost: when the saveData has returned,
\* the stored blob still holds the conflictResolution the UI saved
C39_SettingsSaveNotLost ==
  [][\A k \in PassIds, ok \in BOOLEAN :
       /\ passes[k].pc = "cache"
       /\ data.conflictResolution = settings.conflictResolution
       /\ passes[k].cachedData.conflictResolution # data.conflictResolution
       /\ LPullCacheSave(k, ok)
       => data'.conflictResolution = settings.conflictResolution]_vars

====
